---- MODULE Spec2Model ----
(***************************************************************************)
(* The grounding response pipeline of grounding_server.py:                 *)
(*   - scale_box, the coordinate mapper (normalized 0-1000 box -> pixels); *)
(*   - the processing-and-scaling part of analyze_screenshot, which turns  *)
(*     the provider's raw component list into the output components;       *)
(*   - analyze_screenshot as a whole: input validation, image loading,     *)
(*     the lazily initialised backend, its retried provider call, and the  *)
(*     result or error it returns;                                         *)
(*   - _get_handler run by concurrent requests.                            *)
(*                                                                         *)
(* JSON / Python values are tagged records, so that values of different    *)
(* Python types can sit in one list:                                       *)
(*   None -> [t |-> "null"]        int  -> [t |-> "int", v |-> n]          *)
(*   str  -> [t |-> "str", s |-> s]  list -> [t |-> "list", items |-> seq] *)
(*   dict -> [t |-> "dict", d |-> function from its keys to values]        *)
(* A Python dict that the code builds itself (the PixelBox, an output      *)
(* component, the result) is a TLA+ record with the dict's keys.           *)
(***************************************************************************)
EXTENDS Integers, Sequences, FiniteSets, TLC

VARIABLES
    pc,                \* position of the modelled call
    box_norm,          \* scale_box: argument box_norm
    width,             \* image width  (scale_box argument / img.size[0])
    height,            \* image height (scale_box argument / img.size[1])
    box_px,            \* scale_box: what the call produced
    data,              \* analyze_screenshot: the mapping the backend returned
    raw_comps,         \* analyze_screenshot: raw_comps
    i,                 \* analyze_screenshot: loop index of enumerate(raw_comps)
    final_components,  \* analyze_screenshot: final_components
    result,            \* analyze_screenshot: the result dict it serialises
    image_base64,      \* analyze_screenshot: argument image_base64
    image_bytes,       \* analyze_screenshot: len(image_bytes) once decoded
    img,               \* analyze_screenshot: the image PIL opened
    env,               \* the process: environment variables, importable
                       \*   client libraries, the base64 decoder of its Python
    handler,           \* module global handler (None or a backend instance)
    constructed,       \* number of backend instances constructed so far
    attempt_number,    \* tenacity: attempt number inside backend.generate
    last_exc,          \* tenacity: exception of the last failed attempt
    reply,             \* what the provider's API did in the last attempt
    calls,             \* calls of _get_handler / generate made by the request
    requests,          \* number of requests the process has taken
    response,          \* what analyze_screenshot returned
    threads,           \* concurrent callers of _get_handler
    waited,            \* the waits slept between the attempts of generate
    adb,               \* an ADBHelper instance (None before its construction)
    commands,          \* the adb commands the last ADBHelper call has run
    returned,          \* what the last call of an ADBHelper method or of
                       \*   analyze_screenshot_with_hierarchy returned
    ui_hierarchy_xml   \* analyze_screenshot_with_hierarchy: its argument

\* the state of a whole request, idle while a part is studied on its own
reqVars == <<image_base64, image_bytes, img, env, handler, constructed,
             attempt_number, last_exc, reply, calls, requests, threads,
             waited>>

\* the state of the ADB helper and of the hierarchy tool
adbVars == <<adb, commands, returned, ui_hierarchy_xml>>

vars == <<pc, box_norm, width, height, box_px, data, raw_comps, i,
          final_components, result, response, reqVars, adbVars>>

(***************************************************************************)
(* Bounds of the model.                                                    *)
(***************************************************************************)
\* image sides 1..MaxSmallDim are explored next to the sides of SpecialDims
MaxSmallDim == 3
\* longest box (number of elements) handed to scale_box
MaxBoxLen == 5
\* number of requests a process takes
MaxRequests == 2
\* longest raw component list
MaxComps == 3
\* number of host threads that run analyze_screenshot at the same time
MaxThreads == 2

(***************************************************************************)
(* Python / JSON values.                                                   *)
(***************************************************************************)
JNull == [t |-> "null"]
JInt(n) == [t |-> "int", v |-> n]
JStr(s) == [t |-> "str", s |-> s]
JList(xs) == [t |-> "list", items |-> xs]
JDict(d) == [t |-> "dict", d |-> d]

\* dict.get(key, default)
Get(c, key, default) == IF key \in DOMAIN c.d THEN c.d[key] ELSE default

Max(a, b) == IF a >= b THEN a ELSE b
Min(a, b) == IF a <= b THEN a ELSE b

(***************************************************************************)
(* Double-precision arithmetic of  int(round((v / 1000.0) * dim))          *)
(* for an integer 0 <= v <= 1000 and an image side dim.  A positive double *)
(* is [m, e]: m its 53 mantissa bits, most significant first, and e the    *)
(* exponent of the last bit; its value is m * 2^e.                         *)
(***************************************************************************)
\* what is left of r / 1000 (0 <= r < 1000) after n bits of its binary
\* expansion, in 1/1000 of the last bit:  (r * 2^n) mod 1000
RECURSIVE FracRem(_, _)
FracRem(r, n) ==
    IF n <= 20 THEN (r * 2^n) % 1000
    ELSE FracRem((r * 2^20) % 1000, n - 20)

\* the first n bits of the binary expansion of r / 1000
RECURSIVE FracBits(_, _)
FracBits(r, n) ==
    IF n = 0 THEN <<>>
    ELSE IF n = 1 THEN <<(2 * r) \div 1000>>
    ELSE FracBits(r, n \div 2) \o FracBits(FracRem(r, n \div 2), n - n \div 2)

\* bits + 1
Inc(bits) ==
    LET zeros == {j \in 1..Len(bits) : bits[j] = 0}
    IN  IF zeros = {}
        THEN <<1>> \o [j \in 1..Len(bits) |-> 0]
        ELSE LET z == CHOOSE j \in zeros : \A k \in zeros : k <= j
             IN  [j \in 1..Len(bits) |->
                     IF j < z THEN bits[j] ELSE IF j = z THEN 1 ELSE 0]

\* IEEE 754 round-to-nearest, ties-to-even, of a bit string (leading bit 1)
\* to 53 bits; sticky says that non-zero bits follow the string.  drop is
\* the number of low bits the mantissa lost.
Round53(bits, sticky) ==
    IF Len(bits) <= 53 THEN [m |-> bits, drop |-> 0]
    ELSE LET keep == SubSeq(bits, 1, 53)
             st   == sticky \/ \E j \in 55..Len(bits) : bits[j] = 1
             up   == bits[54] = 1 /\ (st \/ keep[53] = 1)
             inc  == IF up THEN Inc(keep) ELSE keep
         IN  IF Len(inc) = 54
             THEN [m |-> SubSeq(inc, 1, 53), drop |-> Len(bits) - 52]
             ELSE [m |-> inc, drop |-> Len(bits) - 53]

\* the double  v / 1000.0  for 0 < v < 1000
Div1000(v) ==
    LET s    == CHOOSE j \in 1..10 :
                    /\ FracBits(v, j)[j] = 1
                    /\ \A k \in 1..(j - 1) : FracBits(v, j)[k] = 0
        bits == SubSeq(FracBits(v, s + 53), s, s + 53)
        r    == Round53(bits, FracRem(v, s + 53) # 0)
    IN  [m |-> r.m, e |-> r.drop - (s + 53)]

\* the binary digits of n, without leading zeros
RECURSIVE BitsOfNat(_)
BitsOfNat(n) == IF n = 0 THEN <<>> ELSE BitsOfNat(n \div 2) \o <<n % 2>>

RECURSIVE NatOfBits(_)
NatOfBits(bits) ==
    IF bits = <<>> THEN 0
    ELSE 2 * NatOfBits(SubSeq(bits, 1, Len(bits) - 1)) + bits[Len(bits)]

\* the bits of a mantissa in groups of 11 (limbs, base 2048), limb 1 the most
\* significant: limb j of the bit string padded on the left to 11 * n bits
Limb(bits, n, j) ==
    LET pad == 11 * n - Len(bits)
    IN  NatOfBits([b \in 1..11 |->
                      IF 11 * (j - 1) + b <= pad THEN 0
                      ELSE bits[11 * (j - 1) + b - pad]])

\* the carry of the product bits * k out of limbs j+1..n into limb j
RECURSIVE LimbCarry(_, _, _, _)
LimbCarry(bits, k, n, j) ==
    IF j = n THEN 0
    ELSE (Limb(bits, n, j + 1) * k + LimbCarry(bits, k, n, j + 1)) \div 2048

\* the exact product  bits * k  (k >= 1) as a bit string with leading bit 1
MulBits(bits, k) ==
    LET n     == (Len(bits) + 10) \div 11
        digit == [j \in 1..n |->
                     (Limb(bits, n, j) * k + LimbCarry(bits, k, n, j)) % 2048]
        low   == [p \in 1..(11 * n) |->
                     (digit[(p - 1) \div 11 + 1] \div 2^(10 - ((p - 1) % 11))) % 2]
        all   == BitsOfNat(LimbCarry(bits, k, n, 0)) \o low
        lead  == CHOOSE p \in 1..Len(all) :
                     all[p] = 1 /\ \A q \in 1..(p - 1) : all[q] = 0
    IN  SubSeq(all, lead, Len(all))

\* the double  x * k  for a double x and an integer k >= 1
Mul(x, k) ==
    LET r == Round53(MulBits(x.m, k), FALSE)
    IN  [m |-> r.m, e |-> x.e + r.drop]

\* Python's round(x) of a double 0 < x < 2^52: the nearest integer, the even
\* one when x is exactly halfway
RoundDouble(x) ==
    LET L == Len(x.m)
        F == 0 - x.e
    IN  IF F > L THEN 0
        ELSE LET n      == NatOfBits(SubSeq(x.m, 1, L - F))
                 sticky == \E j \in (L - F + 2)..L : x.m[j] = 1
             IN  n + (IF x.m[L - F + 1] = 1 /\ (sticky \/ n % 2 = 1)
                      THEN 1 ELSE 0)

(***************************************************************************)
(* Inputs of the model.                                                    *)
(***************************************************************************)
\* 45 is the smallest image side on which the double product of an exact
\* midpoint (700/1000 * 45 = 31.5) is not the midpoint; 1000 is the side the
\* repository's tests use
SpecialDims == {45, 1000}
Dims == (1..MaxSmallDim) \cup SpecialDims

\* normalized coordinates: below, inside and above [0, 1000]
Coords == {-100, 0, 250, 500, 700, 1000, 1100}

\* strings Python's float() converts
NumericStrings == [s \in {"250"} |-> 250]

\* 4-element boxes of numbers
NumBoxes ==
    {JList(<<JInt(a), JInt(b), JInt(c), JInt(d)>>) : a, b, c, d \in Coords}
\* 4-element boxes with non-numeric elements
MixedElems == {JInt(0), JInt(500), JStr("abc"), JStr("250"), JNull}
MixedBoxes == {JList(xs) : xs \in [1..4 -> MixedElems]}
\* boxes of the wrong arity
ArityBoxes ==
    UNION {{JList(xs) : xs \in [1..n -> {JInt(0), JInt(500)}]} :
           n \in (0..MaxBoxLen) \ {4}}
Boxes == {JNull} \cup NumBoxes \cup MixedBoxes \cup ArityBoxes

\* a local that is not assigned yet
Unset == [unset |-> TRUE]

(***************************************************************************)
(* scale_box                                                               *)
(***************************************************************************)
\* float(v): the number, or the exception float() raises
FloatOf(v) ==
    CASE v.t = "int" -> [ok |-> TRUE, v |-> v.v]
      [] v.t = "str" ->
            IF v.s \in DOMAIN NumericStrings
            THEN [ok |-> TRUE, v |-> NumericStrings[v.s]]
            ELSE [ok |-> FALSE, exc |-> "ValueError"]
      [] OTHER -> [ok |-> FALSE, exc |-> "TypeError"]

\* max(0.0, min(1000.0, v))
Clamp(v) == Max(0, Min(1000, v))

\* (mutant of OrderPair: the pair is used as given)
OrderPairNoSwap(lo, hi) == <<lo, hi>>

\* if hi < lo: lo, hi = hi, lo
OrderPair(lo, hi) == IF hi < lo THEN <<hi, lo>> ELSE <<lo, hi>>

\* the doubles v / 1000.0 and their products with the image sides
Interior == {v \in Coords \cup {NumericStrings[s] : s \in DOMAIN NumericStrings} :
                0 < v /\ v < 1000}
Quotient == [v \in Interior |-> Div1000(v)]
PixelTbl == [v \in Interior |-> [d \in Dims |-> RoundDouble(Mul(Quotient[v], d))]]

\* int(round((v / 1000.0) * dim))  for a clamped v
PyRound(v, dim) ==
    IF v = 0 THEN 0
    ELSE IF v = 1000 THEN dim
    ELSE PixelTbl[v][dim]

\* (mutant of FixDegenerate: the repaired corner is not held inside the image)
FixDegenerateNoLimit(abs_1, abs_2, limit) ==
    IF abs_2 <= abs_1 THEN abs_1 + 1 ELSE abs_2

\* if abs_2 <= abs_1: abs_2 = min(limit, abs_1 + 1)
FixDegenerate(abs_1, abs_2, limit) ==
    IF abs_2 <= abs_1 THEN Min(limit, abs_1 + 1) ELSE abs_2

\* (mutant of PixelBox: the center is rounded up instead of down)
PixelBoxCenterUp(abs_x1, abs_y1, abs_x2, abs_y2) ==
    [center_x |-> (abs_x1 + abs_x2 + 1) \div 2,
     center_y |-> (abs_y1 + abs_y2 + 1) \div 2,
     width    |-> abs_x2 - abs_x1,
     height   |-> abs_y2 - abs_y1,
     y_min    |-> abs_y1,
     x_min    |-> abs_x1,
     y_max    |-> abs_y2,
     x_max    |-> abs_x2]

\* the dict scale_box returns
PixelBox(abs_x1, abs_y1, abs_x2, abs_y2) ==
    [center_x |-> (abs_x1 + abs_x2) \div 2,
     center_y |-> (abs_y1 + abs_y2) \div 2,
     width    |-> abs_x2 - abs_x1,
     height   |-> abs_y2 - abs_y1,
     y_min    |-> abs_y1,
     x_min    |-> abs_x1,
     y_max    |-> abs_y2,
     x_max    |-> abs_x2]

\* not box_norm
Falsy(b) == b.t = "null" \/ (b.t = "list" /\ Len(b.items) = 0)

\* scale_box(box_norm, width, height) for box_norm None or a list: the dict
\* it returns, or [raise |-> the exception that leaves it]
scale_box(b, w, h) ==
    IF Falsy(b) \/ Len(b.items) # 4 THEN [error |-> "invalid_box"]
    ELSE LET fl  == [k \in 1..4 |-> FloatOf(b.items[k])]
             bad == {k \in 1..4 : ~fl[k].ok}
         IN  IF bad # {}
             THEN [raise |-> fl[CHOOSE k \in bad : \A m \in bad : k <= m].exc]
             ELSE LET ys     == OrderPair(Clamp(fl[1].v), Clamp(fl[3].v))
                      xs     == OrderPair(Clamp(fl[2].v), Clamp(fl[4].v))
                      abs_y1 == PyRound(ys[1], h)
                      abs_x1 == PyRound(xs[1], w)
                      abs_y2 == PyRound(ys[2], h)
                      abs_x2 == PyRound(xs[2], w)
                  IN  PixelBox(abs_x1, abs_y1,
                               FixDegenerate(abs_x1, abs_x2, w),
                               FixDegenerate(abs_y1, abs_y2, h))

(***************************************************************************)
(* One call of scale_box.                                                  *)
(***************************************************************************)
NoCalls == [get_handler |-> 0, generate |-> 0]

AdbIdle ==
    /\ adb = Unset
    /\ commands = <<>>
    /\ returned = Unset
    /\ ui_hierarchy_xml = Unset

ReqIdle ==
    /\ image_base64 = JNull
    /\ image_bytes = Unset
    /\ img = Unset
    /\ env = Unset
    /\ handler = JNull
    /\ constructed = 0
    /\ attempt_number = 0
    /\ last_exc = Unset
    /\ reply = Unset
    /\ calls = NoCalls
    /\ requests = 0
    /\ threads = <<>>
    /\ waited = <<>>

SanitizeIdle ==
    /\ data = JNull
    /\ raw_comps = <<>>
    /\ i = 0
    /\ final_components = <<>>
    /\ result = Unset

InitScale ==
    /\ pc = "call"
    /\ box_norm \in Boxes
    /\ width \in Dims
    /\ height \in Dims
    /\ box_px = Unset
    /\ SanitizeIdle
    /\ response = Unset
    /\ ReqIdle
    /\ AdbIdle

ScaleBoxCall ==
    /\ pc = "call"
    /\ box_px' = scale_box(box_norm, width, height)
    /\ pc' = IF "raise" \in DOMAIN box_px' THEN "raised" ELSE "returned"
    /\ UNCHANGED <<box_norm, width, height, data, raw_comps, i,
                   final_components, result, response, reqVars>>
    /\ UNCHANGED adbVars

NextScale == ScaleBoxCall

SpecScale == InitScale /\ [][NextScale]_vars


(***************************************************************************)
(* analyze_screenshot, step 5 "Processing & Scaling": from the mapping the *)
(* backend returned to the result.                                         *)
(***************************************************************************)
ALLOWED_TYPES == {"button", "input", "icon", "text", "link", "image", "other"}

\* the raw items a provider may emit: a well-formed component and the same
\* component with one field missing or of another type, the empty mapping,
\* and an item that is no mapping
BaseFields ==
    [id     |-> JInt(7),
     label  |-> JStr("OK"),
     type   |-> JStr("button"),
     tags   |-> JList(<<JStr("nav")>>),
     box_2d |-> JList(<<JInt(0), JInt(0), JInt(500), JInt(500)>>)]
Without(key) == JDict([k \in DOMAIN BaseFields \ {key} |-> BaseFields[k]])
With(key, val) == JDict([BaseFields EXCEPT ![key] = val])
RawItems ==
    {JDict(BaseFields), JDict(<<>>), JStr("junk"),
     Without("id"), With("id", JStr("seven")), With("id", JNull),
     Without("type"), With("type", JStr("widget")), With("type", JInt(5)),
     With("type", JList(<<JStr("button")>>)),
     With("tags", JStr("nav")),
     Without("box_2d"),
     With("box_2d", JList(<<JInt(0), JInt(500)>>)),
     With("box_2d", JList(<<JInt(0), JInt(0), JStr("abc"), JInt(500)>>)),
     With("box_2d", JStr("0 0 500 500"))}

\* the mappings the backend may return
RawLists == UNION {[1..n -> RawItems] : n \in 0..MaxComps}
Datas ==
    {JDict([summary |-> JStr("Login screen"), components |-> JList(xs)]) :
        xs \in RawLists}
    \cup {JDict([summary |-> JStr("Login screen")]),
          JDict([components |-> JStr("none")])}

\* the image sizes of the requests
Resolutions == {<<1000, 1000>>, <<45, 3>>}

\* raw_comps = data.get("components", []), and [] when that is no list
RawComponents(d) ==
    LET got == Get(d, "components", JList(<<>>))
    IN  IF got.t = "list" THEN got.items ELSE <<>>

\* c_type after "if c_type not in ALLOWED_TYPES: c_type = 'other'", or the
\* TypeError of hashing an unhashable c_type
NormalizeType(c_type) ==
    IF c_type.t \in {"list", "dict"} THEN [raise |-> "TypeError"]
    ELSE IF c_type.t = "str" /\ c_type.s \in ALLOWED_TYPES THEN [type |-> c_type]
    ELSE [type |-> JStr("other")]

\* c.get("tags", []) if isinstance(c.get("tags"), list) else []
TagsOf(c) ==
    IF Get(c, "tags", JNull).t = "list" THEN Get(c, "tags", JList(<<>>))
    ELSE JList(<<>>)

\* the body of the loop for item c at index idx: the components it appends
\* (none when the item is skipped by a continue, also that of the except)
SanitizeItem(c, idx, w, h) ==
    IF c.t # "dict" THEN <<>>
    ELSE LET c_id    == Get(c, "id", JInt(idx + 1))
             c_label == Get(c, "label", JStr("unknown"))
             c_type  == NormalizeType(Get(c, "type", JStr("other")))
             box     == Get(c, "box_2d",
                            JList(<<JInt(0), JInt(0), JInt(0), JInt(0)>>))
             px      == scale_box(box, w, h)
         IN  IF "raise" \in DOMAIN c_type THEN <<>>
             ELSE IF box.t # "list" \/ Len(box.items) # 4 THEN <<>>
             ELSE IF "raise" \in DOMAIN px THEN <<>>
             ELSE IF "error" \in DOMAIN px THEN <<>>
             ELSE <<[id       |-> c_id,
                     label    |-> c_label,
                     type     |-> c_type.type,
                     tags     |-> TagsOf(c),
                     box_norm |-> box,
                     box_px   |-> px]>>

\* (mutant of AppendComponents: a new component is put in front)
PrependComponents(fc, new) == new \o fc

\* (mutant of AppendComponents: a skipped item discards what was collected)
AppendOrAbort(fc, new) == IF new = <<>> THEN <<>> ELSE fc \o new

\* final_components after the loop body ran for one more item
AppendComponents(fc, new) == fc \o new

\* (mutant of Assembled: the count is taken from the raw list)
AssembledRawCount(d, w, h, fc) ==
    [summary         |-> Get(d, "summary", JStr("")),
     resolution      |-> [width |-> w, height |-> h],
     components      |-> fc,
     component_count |-> Len(RawComponents(d))]

\* the result dict
Assembled(d, w, h, fc) ==
    [summary         |-> Get(d, "summary", JStr("")),
     resolution      |-> [width |-> w, height |-> h],
     components      |-> fc,
     component_count |-> Len(fc)]

\* json.dumps(obj): the JSON text of obj
json_dumps(obj) == [json |-> obj]

\* a failure result {"error": code, "message": message}
ErrorResult(code, message) == [error |-> code, message |-> message]

\* (mutant of OutermostExcept: the failure is blamed on the provider)
OutermostExceptAsProvider(message) == ErrorResult("ai_provider_error", message)

\* the outermost except (lines 457-459): the result for an exception with
\* this str()
OutermostExcept(message) == ErrorResult("internal_error", message)

\* str(e) of the AttributeError that data.get raises when data is no dict
NoGetMessage ==
    [list |-> "'list' object has no attribute 'get'",
     null |-> "'NoneType' object has no attribute 'get'",
     int  |-> "'int' object has no attribute 'get'",
     str  |-> "'str' object has no attribute 'get'"]

ScaleIdle ==
    /\ box_norm = JNull
    /\ box_px = Unset

InitSanitize ==
    /\ pc = "backend_returned"
    /\ data \in Datas
    /\ \E r \in Resolutions : width = r[1] /\ height = r[2]
    /\ raw_comps = <<>>
    /\ i = 0
    /\ final_components = <<>>
    /\ result = Unset
    /\ response = Unset
    /\ ScaleIdle
    /\ ReqIdle
    /\ AdbIdle

\* final_components = []; raw_comps = data.get("components", []) ...
\* (data.get raises AttributeError when the backend returned no dict: the
\* outermost except returns internal_error)
GetComponents ==
    /\ pc = "backend_returned"
    /\ final_components' = <<>>
    /\ IF data.t = "dict"
       THEN /\ raw_comps' = RawComponents(data)
            /\ pc' = "loop"
            /\ UNCHANGED response
       ELSE /\ raw_comps' = raw_comps
            /\ response' = json_dumps(OutermostExcept(NoGetMessage[data.t]))
            /\ pc' = "done"
    /\ i' = 0
    /\ UNCHANGED <<box_norm, width, height, box_px, data, result, reqVars>>
    /\ UNCHANGED adbVars

\* one iteration of "for i, c in enumerate(raw_comps)"
ProcessComponent ==
    /\ pc = "loop"
    /\ i < Len(raw_comps)
    /\ final_components' =
           AppendComponents(final_components,
                            SanitizeItem(raw_comps[i + 1], i, width, height))
    /\ i' = i + 1
    /\ UNCHANGED <<pc, box_norm, width, height, box_px, data, raw_comps, result,
                   response, reqVars>>
    /\ UNCHANGED adbVars

\* the loop is over: result = {...}; return json.dumps(result)
Assemble ==
    /\ pc = "loop"
    /\ i = Len(raw_comps)
    /\ result' = Assembled(data, width, height, final_components)
    /\ response' = json_dumps(result')
    /\ pc' = "done"
    /\ UNCHANGED <<box_norm, width, height, box_px, data, raw_comps, i,
                   final_components, reqVars>>
    /\ UNCHANGED adbVars

NextSanitize == GetComponents \/ ProcessComponent \/ Assemble

SpecSanitize == InitSanitize /\ [][NextSanitize]_vars

(***************************************************************************)
(* analyze_screenshot, steps 1 to 4: what a request is given and what the  *)
(* process runs in.                                                        *)
(***************************************************************************)
MAX_IMAGE_BYTES == 6 * 1024 * 1024
MAX_DIMENSION == 8000
DEFAULT_GOOGLE_MODEL == "models/gemini-flash-latest"

\* the str made of `groups` times "AAAA", then `rest` times "A", then `pads`
\* times "=", then "!" when junk
Text(groups, rest, pads, junk) ==
    [t |-> "str", groups |-> groups, data |-> rest, pads |-> pads, junk |-> junk]
EmptyText == Text(0, 0, 0, FALSE)
\* the number of "AAAA" groups that decode to exactly MAX_IMAGE_BYTES bytes
FullGroups == MAX_IMAGE_BYTES \div 3

\* the values image_base64 takes
Inputs ==
    {JNull, JInt(5), EmptyText,
     Text(0, 0, 0, TRUE),            \* "!"
     Text(0, 0, 2, FALSE),           \* "=="
     Text(0, 1, 0, FALSE),           \* "A"
     Text(0, 2, 0, FALSE),           \* "AA"
     Text(0, 3, 2, FALSE),           \* "AAA=="
     Text(1, 0, 0, TRUE),            \* "AAAA!"
     Text(0, 2, 2, FALSE),           \* "AA==": one byte
     Text(1, 0, 1, FALSE),           \* "AAAA="
     Text(FullGroups, 0, 0, FALSE),  \* MAX_IMAGE_BYTES bytes
     Text(FullGroups, 2, 2, FALSE)}  \* MAX_IMAGE_BYTES + 1 bytes

\* an exception of class type whose str() is msg
Exc(type, msg) == [type |-> type, msg |-> msg]
\* isinstance(e, ValueError)
IsValueError(e) == e.type \in {"ValueError", "JSONDecodeError"}

\* bool(v) of a JSON value
Truthy(v) ==
    CASE v.t = "null" -> FALSE
      [] v.t = "int"  -> v.v # 0
      [] v.t = "str"  -> v.s # ""
      [] v.t = "list" -> Len(v.items) > 0
      [] v.t = "dict" -> DOMAIN v.d # {}

\* the bytes a text of complete groups and a padded rest decodes to
DecodedLen(s) == 3 * s.groups + (IF s.data = 0 THEN 0 ELSE s.data - 1)

\* base64.b64decode(s, validate=True) of Python >= 3.11
\* (binascii.a2b_base64 in strict mode): the length of the bytes, or the
\* message of binascii.Error (without the character count it may carry)
b64decode_strict(s) ==
    IF s.groups = 0 /\ s.data = 0 /\ s.pads > 0
    THEN [ok |-> FALSE, msg |-> "Leading padding not allowed"]
    ELSE IF s.data \in {2, 3} /\ (s.pads > 4 - s.data \/ (s.pads = 4 - s.data /\ s.junk))
    THEN [ok |-> FALSE, msg |-> "Excess data after padding"]
    ELSE IF s.junk
    THEN [ok |-> FALSE, msg |-> "Only base64 data is allowed"]
    ELSE IF s.data = 1
    THEN [ok |-> FALSE, msg |-> "Invalid base64-encoded string: number of data characters cannot be 1 more than a multiple of 4"]
    ELSE IF s.data \in {2, 3} /\ s.pads < 4 - s.data
    THEN [ok |-> FALSE, msg |-> "Incorrect padding"]
    ELSE [ok |-> TRUE, len |-> DecodedLen(s)]

\* base64.b64decode(s, validate=True) of Python 3.10 (a regular expression
\* for the alphabet and at most two "=", then binascii.a2b_base64)
b64decode_regex(s) ==
    IF s.junk \/ s.pads > 2
    THEN [ok |-> FALSE, msg |-> "Non-base64 digit found"]
    ELSE IF s.data = 1
    THEN [ok |-> FALSE, msg |-> "Invalid base64-encoded string: number of data characters cannot be 1 more than a multiple of 4"]
    ELSE IF (s.data = 2 /\ s.pads < 2) \/ (s.data = 3 /\ s.pads < 1)
    THEN [ok |-> FALSE, msg |-> "Incorrect padding"]
    ELSE [ok |-> TRUE, len |-> DecodedLen(s)]

\* base64.b64decode(image_base64, validate=True) on the process's Python
b64decode(s, strict_base64) ==
    IF strict_base64 THEN b64decode_strict(s) ELSE b64decode_regex(s)

\* the processes: the environment variables read at import (lines 43-46),
\* whether the client libraries could be imported (lines 23-32), and which
\* base64 decoder the Python of the process has
Envs ==
    [API_KEY       : {JNull, JStr("secret")},
     PROVIDER      : {"google", "openai", "azure"},
     MODEL_NAME    : {JNull},
     BASE_URL      : {JNull},
     genai         : BOOLEAN,
     OpenAI        : BOOLEAN,
     strict_base64 : BOOLEAN]

\* what the constructor of a provider's client does: JNull when it returns,
\* or the exception it raises
ClientOutcomes == {JNull, Exc("OSError", "Too many open files")}

\* a backend instance; serial tells the instances of a process apart
Backend(cls, key, base_url, model, serial) ==
    [cls |-> cls, key |-> key, base_url |-> base_url, model |-> model,
     serial |-> serial]

\* (mutant of GoogleBackend: the configured model name is ignored)
GoogleBackendDefaultOnly(e, key, model, client, serial) ==
    IF ~e.genai
    THEN [raise |-> Exc("ImportError", "google-genai package not installed")]
    ELSE IF ~Truthy(key)
    THEN [raise |-> Exc("ValueError", "API key required for Google backend")]
    ELSE IF client # JNull THEN [raise |-> client]
    ELSE [handler |-> Backend("GoogleBackend", key, JNull,
                              JStr(DEFAULT_GOOGLE_MODEL), serial)]

\* GoogleBackend(key, model) in a process e: the instance, or the exception
GoogleBackend(e, key, model, client, serial) ==
    IF ~e.genai
    THEN [raise |-> Exc("ImportError", "google-genai package not installed")]
    ELSE IF ~Truthy(key)
    THEN [raise |-> Exc("ValueError", "API key required for Google backend")]
    ELSE IF client # JNull THEN [raise |-> client]
    ELSE [handler |-> Backend("GoogleBackend", key, JNull,
                              IF Truthy(model) THEN model
                              ELSE JStr(DEFAULT_GOOGLE_MODEL), serial)]

\* OpenAIBackend(key, base_url, model) in a process e
OpenAIBackend(e, key, base_url, model, client, serial) ==
    IF ~e.OpenAI
    THEN [raise |-> Exc("ImportError", "openai package not installed")]
    ELSE IF client # JNull THEN [raise |-> client]
    ELSE [handler |-> Backend("OpenAIBackend",
                              IF Truthy(key) THEN key ELSE JStr("not-needed"),
                              IF Truthy(base_url) THEN base_url ELSE JNull,
                              IF Truthy(model) THEN model ELSE JStr("gpt-4o-mini"),
                              serial)]

\* the message of the ValueError for an unknown provider
InvalidProviderMessage ==
    [p \in {"azure"} |->
        "Invalid GROUNDING_PROVIDER: azure. Must be 'google' or 'openai'"]

\* (mutant of get_handler: the test of API_KEY is left out)
get_handler_no_key_test(h, e, client, serial) ==
    IF h # JNull THEN [handler |-> h]
    ELSE IF e.PROVIDER = "google"
    THEN GoogleBackend(e, e.API_KEY, e.MODEL_NAME, client, serial)
    ELSE IF e.PROVIDER = "openai"
    THEN OpenAIBackend(e, e.API_KEY, e.BASE_URL, e.MODEL_NAME, client, serial)
    ELSE [raise |-> Exc("ValueError", InvalidProviderMessage[e.PROVIDER])]

\* _get_handler() when the global handler is h: [handler |-> the handler it
\* returns (and stores)], or [raise |-> the exception]
get_handler(h, e, client, serial) ==
    IF h # JNull THEN [handler |-> h]
    ELSE IF ~Truthy(e.API_KEY)
    THEN [raise |-> Exc("ValueError", "API_KEY environment variable is required")]
    ELSE IF e.PROVIDER = "google"
    THEN GoogleBackend(e, e.API_KEY, e.MODEL_NAME, client, serial)
    ELSE IF e.PROVIDER = "openai"
    THEN OpenAIBackend(e, e.API_KEY, e.BASE_URL, e.MODEL_NAME, client, serial)
    ELSE [raise |-> Exc("ValueError", InvalidProviderMessage[e.PROVIDER])]

\* the global handler after the module was imported (lines 300-308)
ImportedHandler(e, client) ==
    IF Truthy(e.API_KEY)
    THEN LET got == get_handler(JNull, e, client, 1)
         IN  IF "handler" \in DOMAIN got THEN got.handler ELSE JNull
    ELSE JNull

\* the JSON values a provider answers with
ReplyValues ==
    {JDict([summary    |-> JStr("Login screen"),
            components |-> JList(<<JDict(BaseFields), JStr("junk")>>)]),
     JDict([summary    |-> JStr("Login screen"),
            components |-> JList(<<JStr("junk")>>)]),
     JDict([summary |-> JStr("Login screen")]),
     JDict([components |-> JStr("none")]),
     JDict(<<>>),
     JList(<<JInt(1)>>),
     JNull}

\* a text that is no JSON
Garbage == [garbage |-> TRUE]

\* what one call of the provider's API does:
\*   raise  - the transport fails (a timeout, a rate limit)
\*   parsed - a response whose parsed attribute is value and whose text is
\*            the JSON text of value (Gemini only)
\*   text   - a response with this text / message content only
\*   empty  - a response with neither
Replies(cls) ==
    {[kind |-> "raise", exc |-> Exc("TimeoutError", "timed out")],
     [kind |-> "empty"],
     [kind |-> "text", text |-> Garbage]}
    \cup {[kind |-> "text", text |-> json_dumps(v)] : v \in ReplyValues}
    \cup (IF cls = "GoogleBackend"
          THEN {[kind |-> "parsed", value |-> v] : v \in ReplyValues}
          ELSE {})

\* json.loads(text): [ok |-> TRUE, value |-> ...] or the JSONDecodeError
json_loads(text) ==
    IF "json" \in DOMAIN text THEN [ok |-> TRUE, value |-> text.json]
    ELSE [ok |-> FALSE,
          exc |-> Exc("JSONDecodeError", "Expecting value: line 1 column 1 (char 0)")]

\* str(type(v)) of a JSON value
TypeRepr ==
    [list |-> "<class 'list'>", null |-> "<class 'NoneType'>",
     int |-> "<class 'int'>", str |-> "<class 'str'>"]
ExpectedDictMessage ==
    [t \in DOMAIN TypeRepr |->
        CASE t = "list" -> "Expected dict response, got <class 'list'>"
          [] t = "null" -> "Expected dict response, got <class 'NoneType'>"
          [] t = "int"  -> "Expected dict response, got <class 'int'>"
          [] t = "str"  -> "Expected dict response, got <class 'str'>"]
NoModelDumpMessage ==
    [t \in DOMAIN TypeRepr |->
        CASE t = "list" -> "'list' object has no attribute 'model_dump'"
          [] t = "null" -> "'NoneType' object has no attribute 'model_dump'"
          [] t = "int"  -> "'int' object has no attribute 'model_dump'"
          [] t = "str"  -> "'str' object has no attribute 'model_dump'"]

\* the body of GoogleBackend.generate for one reply (lines 183-212)
GoogleGenerate(r) ==
    LET read ==
            IF r.kind = "raise" THEN [ok |-> FALSE, exc |-> r.exc]
            ELSE IF r.kind = "parsed" /\ Truthy(r.value)
            THEN IF r.value.t = "dict"
                 THEN [ok |-> TRUE, value |-> r.value]
                 ELSE [ok |-> FALSE,
                       exc |-> Exc("AttributeError",
                                   NoModelDumpMessage[r.value.t])]
            ELSE IF r.kind = "parsed" THEN json_loads(json_dumps(r.value))
            ELSE IF r.kind = "text" THEN json_loads(r.text)
            ELSE [ok |-> FALSE,
                  exc |-> Exc("ValueError",
                              "Unable to parse response from Gemini API")]
    IN  IF ~read.ok THEN read
        ELSE IF read.value.t # "dict"
        THEN [ok |-> FALSE,
              exc |-> Exc("ValueError", ExpectedDictMessage[read.value.t])]
        ELSE IF "components" \notin DOMAIN read.value.d
        THEN [ok |-> TRUE,
              value |-> JDict([k \in DOMAIN read.value.d \cup {"components"} |->
                                 IF k = "components" THEN JList(<<>>)
                                 ELSE read.value.d[k]])]
        ELSE read

\* (mutant of OpenAIGenerate: an empty body is taken as an empty result)
OpenAIGenerateEmptyAsResult(r) ==
    IF r.kind = "raise" THEN [ok |-> FALSE, exc |-> r.exc]
    ELSE IF r.kind = "empty" THEN [ok |-> TRUE, value |-> JDict([summary |-> JStr("")])]
    ELSE json_loads(r.text)

\* the body of OpenAIBackend.generate for one reply (lines 231-271)
OpenAIGenerate(r) ==
    IF r.kind = "raise" THEN [ok |-> FALSE, exc |-> r.exc]
    ELSE IF r.kind = "empty"
    THEN [ok |-> FALSE, exc |-> Exc("ValueError", "Empty response from model")]
    ELSE json_loads(r.text)

\* one attempt of backend.generate
GenerateOnce(backend, r) ==
    IF backend.cls = "GoogleBackend" THEN GoogleGenerate(r)
    ELSE OpenAIGenerate(r)

\* (mutant of stop_after_attempt: one attempt more)
stop_after_fourth_attempt(n) == n >= 4

\* tenacity's stop=stop_after_attempt(3): no attempt after attempt n
stop_after_attempt(n) == n >= 3

\* tenacity's wait=wait_exponential(multiplier=1, min=2, max=10): the sleep
\* after failed attempt n, max(max(0, min), min(multiplier * 2 ** (n - 1), max))
wait_exponential(n) == Max(Max(0, 2), Min(1 * 2 ^ (n - 1), 10))

\* str() of the tenacity.RetryError raised when the attempts are used up: it
\* names the class of the last exception (and the address of a Future, left
\* out here), not its message
RetryErrorStr(exc) ==
    CASE exc.type = "TimeoutError" ->
            "RetryError[<Future state=finished raised TimeoutError>]"
      [] exc.type = "ValueError" ->
            "RetryError[<Future state=finished raised ValueError>]"
      [] exc.type = "JSONDecodeError" ->
            "RetryError[<Future state=finished raised JSONDecodeError>]"
      [] exc.type = "AttributeError" ->
            "RetryError[<Future state=finished raised AttributeError>]"
\* the RetryError; its last_attempt holds the last exception
RetryError(exc) ==
    [type |-> "RetryError", msg |-> RetryErrorStr(exc), last_attempt |-> exc]

\* what Image.open makes of the decoded bytes: CannotOpen when it raises, or
\* an image with its size, its EXIF orientation tag (0: none), what
\* img.getexif() does (JNull: it returns the tags, else the exception it
\* raises), the rotation applied to it so far and whether it can be saved
\* as PNG
CannotOpen == [opens |-> FALSE]
ImageSizes ==
    {<<1000, 1000>>, <<45, 3>>, <<0, 5>>, <<8001, 3>>, <<3, 8001>>, <<0, 8001>>}
Orientations == {0, 1, 3, 6, 8}
\* img.getexif() on damaged EXIF data: an exception of a class that
\* _fix_orientation catches, and PIL's SyntaxError for an EXIF block that
\* does not start with a TIFF header
ExifFailures ==
    {Exc("TypeError", "'NoneType' object is not subscriptable"),
     Exc("SyntaxError", "not a TIFF file (header b'garbage!' not valid)")}
Images ==
    {[size |-> sz, orientation |-> o, getexif |-> JNull, rotated |-> 0,
      saves |-> TRUE] :
        sz \in ImageSizes, o \in Orientations}
    \cup {[size |-> <<45, 3>>, orientation |-> 0, getexif |-> JNull,
           rotated |-> 0, saves |-> FALSE]}
    \cup {[size |-> <<45, 3>>, orientation |-> o, getexif |-> e,
           rotated |-> 0, saves |-> TRUE] :
              o \in {6}, e \in ExifFailures}

\* img.rotate(angle, expand=True): a quarter turn swaps the sides
rotate(im, angle) ==
    [im EXCEPT !.rotated = angle,
               !.size = IF angle \in {90, 270} THEN <<im.size[2], im.size[1]>>
                        ELSE im.size]

\* the exceptions _fix_orientation catches (line 103)
ExifCaught == {"AttributeError", "KeyError", "TypeError"}

\* _fix_orientation(img): [img |-> the image it returns] or [raise |-> the
\* exception it lets through]
fix_orientation(im) ==
    IF im.getexif # JNull
    THEN IF im.getexif.type \in ExifCaught THEN [img |-> im]
         ELSE [raise |-> im.getexif]
    ELSE IF im.orientation = 3 THEN [img |-> rotate(im, 180)]
    ELSE IF im.orientation = 6 THEN [img |-> rotate(im, 270)]
    ELSE IF im.orientation = 8 THEN [img |-> rotate(im, 90)]
    ELSE [img |-> im]

(***************************************************************************)
(* analyze_screenshot: one process taking requests one after the other.    *)
(***************************************************************************)
Init ==
    /\ pc = "idle"
    /\ env \in Envs
    /\ \E client \in ClientOutcomes : handler = ImportedHandler(env, client)
    /\ constructed = IF handler = JNull THEN 0 ELSE 1
    /\ image_base64 = JNull
    /\ image_bytes = Unset
    /\ img = Unset
    /\ width = Unset
    /\ height = Unset
    /\ attempt_number = 0
    /\ last_exc = Unset
    /\ reply = Unset
    /\ calls = NoCalls
    /\ requests = 0
    /\ threads = <<>>
    /\ waited = <<>>
    /\ response = Unset
    /\ SanitizeIdle
    /\ ScaleIdle
    /\ AdbIdle

\* a client calls analyze_screenshot(image_base64)
Request ==
    /\ pc \in {"idle", "done"}
    /\ requests < MaxRequests
    /\ image_base64' \in Inputs
    /\ requests' = requests + 1
    /\ pc' = "input_validation"
    /\ image_bytes' = Unset
    /\ img' = Unset
    /\ width' = Unset
    /\ height' = Unset
    /\ attempt_number' = 0
    /\ last_exc' = Unset
    /\ reply' = Unset
    /\ waited' = <<>>
    /\ calls' = NoCalls
    /\ data' = JNull
    /\ raw_comps' = <<>>
    /\ i' = 0
    /\ final_components' = <<>>
    /\ result' = Unset
    /\ response' = Unset
    /\ UNCHANGED <<box_norm, box_px, env, handler, constructed, threads>>
    /\ UNCHANGED adbVars

\* return json.dumps(d): the request is over
Return(d) ==
    /\ response' = json_dumps(d)
    /\ pc' = "done"

\* 1. Input Validation (lines 326-342)
ValidateInput ==
    /\ pc = "input_validation"
    /\ IF image_base64.t # "str" \/ image_base64 = EmptyText
       THEN /\ Return(ErrorResult("empty_or_invalid_input",
                                  "image_base64 must be a non-empty string"))
            /\ UNCHANGED image_bytes
       ELSE LET decoded == b64decode(image_base64, env.strict_base64)
            IN  IF ~decoded.ok
                THEN /\ Return(ErrorResult("invalid_base64", decoded.msg))
                     /\ UNCHANGED image_bytes
                ELSE /\ image_bytes' = decoded.len
                     /\ IF decoded.len = 0
                        THEN Return([error |-> "empty_decoded_image"])
                        ELSE IF decoded.len > MAX_IMAGE_BYTES
                        THEN Return(ErrorResult("image_too_large",
                                                "Image exceeds 6MB limit"))
                        ELSE /\ pc' = "image_loading"
                             /\ UNCHANGED response
    /\ UNCHANGED <<box_norm, width, height, box_px, data, raw_comps, i,
                   final_components, result, image_base64, img, env, handler,
                   constructed, attempt_number, last_exc, reply, calls,
                   requests, threads, waited>>
    /\ UNCHANGED adbVars

\* (mutant of check_dimensions: the size limit is tested first)
check_dimensions_limit_first(w, h) ==
    IF w > MAX_DIMENSION \/ h > MAX_DIMENSION
    THEN ErrorResult("dimensions_too_large",
                     "Image dimensions exceed 8000px limit")
    ELSE IF w <= 0 \/ h <= 0
    THEN ErrorResult("invalid_dimensions", "Image has zero dimensions")
    ELSE JNull

\* the two tests of width, height = img.size (lines 353-360): the failure
\* result, or JNull when the size is accepted
check_dimensions(w, h) ==
    IF w <= 0 \/ h <= 0
    THEN ErrorResult("invalid_dimensions", "Image has zero dimensions")
    ELSE IF w > MAX_DIMENSION \/ h > MAX_DIMENSION
    THEN ErrorResult("dimensions_too_large",
                     "Image dimensions exceed 8000px limit")
    ELSE JNull

\* 2. Image Loading and Processing (lines 345-365)
LoadImage ==
    /\ pc = "image_loading"
    /\ \E opened \in {CannotOpen} \cup Images :
          IF opened = CannotOpen
          THEN /\ Return(ErrorResult("invalid_image_format",
                                     "cannot identify image file"))
               /\ UNCHANGED <<img, width, height>>
          ELSE IF "raise" \in DOMAIN fix_orientation(opened)
          THEN /\ Return(ErrorResult("invalid_image_format",
                                     fix_orientation(opened).raise.msg))
               /\ img' = opened
               /\ UNCHANGED <<width, height>>
          ELSE /\ img' = fix_orientation(opened).img
               /\ width' = img'.size[1]
               /\ height' = img'.size[2]
               /\ IF check_dimensions(width', height') # JNull
                  THEN Return(check_dimensions(width', height'))
                  ELSE IF ~img'.saves
                  THEN Return(OutermostExcept("cannot write mode CMYK as PNG"))
                  ELSE /\ pc' = "backend_call"
                       /\ UNCHANGED response
    /\ UNCHANGED <<box_norm, box_px, data, raw_comps, i, final_components,
                   result, image_base64, image_bytes, env, handler,
                   constructed, attempt_number, last_exc, reply, calls,
                   requests, threads, waited>>
    /\ UNCHANGED adbVars

\* the result of the except clauses around the backend call (lines 392-397)
BackendFailure(exc) ==
    IF IsValueError(exc) THEN ErrorResult("configuration_error", exc.msg)
    ELSE ErrorResult("ai_provider_error", exc.msg)

\* 4. Backend Call: backend = _get_handler() (line 390)
GetHandler ==
    /\ pc = "backend_call"
    /\ \E client \in ClientOutcomes :
          LET got == get_handler(handler, env, client, constructed + 1)
          IN  IF "handler" \in DOMAIN got
              THEN /\ handler' = got.handler
                   /\ constructed' =
                          IF handler = JNull THEN constructed + 1 ELSE constructed
                   /\ calls' = [get_handler |-> calls.get_handler + 1,
                                generate    |-> calls.generate + 1]
                   /\ pc' = "generate"
                   /\ UNCHANGED response
              ELSE /\ Return(BackendFailure(got.raise))
                   /\ calls' = [calls EXCEPT !.get_handler = @ + 1]
                   /\ UNCHANGED <<handler, constructed>>
    /\ UNCHANGED <<box_norm, width, height, box_px, data, raw_comps, i,
                   final_components, result, image_base64, image_bytes, img,
                   env, attempt_number, last_exc, reply, requests, threads,
                   waited>>
    /\ UNCHANGED adbVars

\* one attempt of data = backend.generate(image_bytes, prompt) under
\* @retry(stop=stop_after_attempt(3), ...) (lines 171, 229, 391)
Attempt ==
    /\ pc = "generate"
    /\ \E r \in Replies(handler.cls) :
          LET out == GenerateOnce(handler, r)
          IN  /\ reply' = r
              /\ attempt_number' = attempt_number + 1
              /\ IF out.ok
                 THEN /\ data' = out.value
                      /\ pc' = "backend_returned"
                      /\ UNCHANGED <<last_exc, response, waited>>
                 ELSE /\ UNCHANGED data
                      /\ IF stop_after_attempt(attempt_number')
                         THEN /\ last_exc' = RetryError(out.exc)
                              /\ Return(BackendFailure(last_exc'))
                              /\ UNCHANGED waited
                         ELSE /\ last_exc' = out.exc
                              /\ waited' = Append(waited,
                                               wait_exponential(attempt_number'))
                              /\ UNCHANGED <<pc, response>>
    /\ UNCHANGED <<box_norm, width, height, box_px, raw_comps, i,
                   final_components, result, image_base64, image_bytes, img,
                   env, handler, constructed, calls, requests, threads>>
    /\ UNCHANGED adbVars

Next ==
    \/ Request
    \/ ValidateInput
    \/ LoadImage
    \/ GetHandler
    \/ Attempt
    \/ GetComponents
    \/ ProcessComponent
    \/ Assemble

Spec == Init /\ [][Next]_vars

(***************************************************************************)
(* The import of the module: the environment is read and the handler is    *)
(* initialised at module level (lines 43-46, 300-308).                     *)
(***************************************************************************)
\* the environments of the import: Envs with model names and endpoints
ImportEnvs ==
    [API_KEY       : {JNull, JStr(""), JStr("secret")},
     PROVIDER      : {"google", "openai", "azure"},
     MODEL_NAME    : {JNull, JStr(""), JStr("custom-model")},
     BASE_URL      : {JNull, JStr(""), JStr("http://local")},
     genai         : BOOLEAN,
     OpenAI        : BOOLEAN,
     strict_base64 : {TRUE}]

InitImport ==
    /\ pc = "import"
    /\ env \in ImportEnvs
    /\ handler = JNull
    /\ constructed = 0
    /\ image_base64 = JNull
    /\ image_bytes = Unset
    /\ img = Unset
    /\ width = Unset
    /\ height = Unset
    /\ attempt_number = 0
    /\ last_exc = Unset
    /\ reply = Unset
    /\ calls = NoCalls
    /\ requests = 0
    /\ threads = <<>>
    /\ waited = <<>>
    /\ response = Unset
    /\ SanitizeIdle
    /\ ScaleIdle
    /\ AdbIdle

\* lines 300-308: handler = _get_handler() when API_KEY is set; a failure
\* is logged and leaves handler None
ImportModule ==
    /\ pc = "import"
    /\ \E client \in ClientOutcomes : handler' = ImportedHandler(env, client)
    /\ constructed' = IF handler' = JNull THEN 0 ELSE 1
    /\ pc' = "idle"
    /\ UNCHANGED <<box_norm, width, height, box_px, data, raw_comps, i,
                   final_components, result, response, image_base64,
                   image_bytes, img, env, attempt_number, last_exc, reply,
                   calls, requests, threads, waited>>
    /\ UNCHANGED adbVars

NextImport == ImportModule

SpecImport == InitImport /\ [][NextImport]_vars

(***************************************************************************)
(* adb_utils.ADBHelper: its constructor, dump_ui_hierarchy and             *)
(* configure_optimal_visual_settings. The device is what _run_command      *)
(* gives for each command: (success, output).                              *)
(***************************************************************************)
\* outputs of adb commands
Outputs ==
    {"uid=0(root) gid=0(root)", "uid=2000(shell) gid=2000(shell)", "",
     "<hierarchy/>"}

\* "uid=0" in output
HasUid0(out) == out = "uid=0(root) gid=0(root)"

\* what _run_command returns: (success, output or error text)
RunOutcomes == [ok : BOOLEAN, out : Outputs]

\* an entry of the command log: the command and what _run_command returned
Ran(cmd, o) == [cmd |-> cmd, ok |-> o.ok, out |-> o.out]

\* _check_root_access(), given what "su -c 'id'" returned
check_root_access(o) == o.ok /\ HasUid0(o.out)

\* (mutant of ADBHelper: the fallback to non-root mode is left out)
ADBHelperNoFallback(device_id, use_root, probe) ==
    [device_id |-> device_id,
     use_root |-> use_root,
     is_root_available |-> use_root /\ check_root_access(probe)]

\* ADBHelper(device_id, use_root): the attributes after __init__
ADBHelper(device_id, use_root, probe) ==
    [device_id |-> device_id,
     use_root |-> use_root /\ check_root_access(probe),
     is_root_available |-> use_root /\ check_root_access(probe)]

DeviceIds == {JNull, JStr("emulator-5554")}

\* the commands of dump_ui_hierarchy
DumpsysCommand == "su -c \"dumpsys activity top\""
UiautomatorCommand == "uiautomator dump /data/local/tmp/uidump.xml"
CatCommand == "cat /data/local/tmp/uidump.xml"

\* use_root = use_root_method if use_root_method is not None else self.use_root
EffectiveRoot(h, use_root_method) ==
    IF use_root_method = "None" THEN h.use_root ELSE use_root_method = "True"

\* the uiautomator method, given what its two commands return:
\* [log |-> commands run, ret |-> (success, xml or None)]
UiautomatorDump(o2, o3) ==
    IF ~o2.ok
    THEN [log |-> <<Ran(UiautomatorCommand, o2)>>, ret |-> <<FALSE, JNull>>]
    ELSE IF ~o3.ok
    THEN [log |-> <<Ran(UiautomatorCommand, o2), Ran(CatCommand, o3)>>,
          ret |-> <<FALSE, JNull>>]
    ELSE [log |-> <<Ran(UiautomatorCommand, o2), Ran(CatCommand, o3)>>,
          ret |-> <<TRUE, JStr(o3.out)>>]

\* (mutant of dump_ui_hierarchy: a failed root command is final)
dump_ui_hierarchy_no_fallback(h, use_root_method, o1, o2, o3) ==
    IF EffectiveRoot(h, use_root_method) /\ h.is_root_available
    THEN [log |-> <<Ran(DumpsysCommand, o1)>>,
          ret |-> IF o1.ok THEN <<TRUE, JStr(o1.out)>> ELSE <<FALSE, JNull>>]
    ELSE UiautomatorDump(o2, o3)

\* dump_ui_hierarchy(use_root_method) on helper h
dump_ui_hierarchy(h, use_root_method, o1, o2, o3) ==
    IF EffectiveRoot(h, use_root_method) /\ h.is_root_available
    THEN IF o1.ok
         THEN [log |-> <<Ran(DumpsysCommand, o1)>>,
               ret |-> <<TRUE, JStr(o1.out)>>]
         ELSE [log |-> <<Ran(DumpsysCommand, o1)>>
                          \o UiautomatorDump(o2, o3).log,
               ret |-> UiautomatorDump(o2, o3).ret]
    ELSE UiautomatorDump(o2, o3)

\* the commands of configure_optimal_visual_settings, in program order
layout_commands ==
    <<"setprop debug.layout true", "settings put global debug_layout true">>
anim_settings ==
    <<"settings put global window_animation_scale 0",
      "settings put global transition_animation_scale 0",
      "settings put global animator_duration_scale 0">>
demo_commands ==
    <<"settings put global sysui_demo_allowed 1",
      "am broadcast -a com.android.systemui.demo -e command clock -e hhmm 1200",
      "am broadcast -a com.android.systemui.demo -e command battery -e level 100 -e plugged false",
      "am broadcast -a com.android.systemui.demo -e command network -e wifi show -e level 4",
      "am broadcast -a com.android.systemui.demo -e command notifications -e visible false">>
SettingCommands == layout_commands \o anim_settings \o demo_commands

\* (mutant of configure_optimal_visual_settings: both layout commands are
\* required)
configure_both_layout(f) ==
    [layout_bounds       |-> f[1] /\ f[2],
     animations_disabled |-> \A k \in 3..5 : f[k],
     demo_mode           |-> \A k \in 6..10 : f[k]]

\* the dict configure_optimal_visual_settings returns when command k
\* succeeds iff f[k]
configure_optimal_visual_settings(f) ==
    [layout_bounds       |-> f[1] \/ f[2],
     animations_disabled |-> \A k \in 3..5 : f[k],
     demo_mode           |-> \A k \in 6..10 : f[k]]

InitADB ==
    /\ pc = "adb_new"
    /\ adb = Unset
    /\ commands = <<>>
    /\ returned = Unset
    /\ ui_hierarchy_xml = Unset
    /\ response = Unset
    /\ width = Unset
    /\ height = Unset
    /\ ReqIdle
    /\ SanitizeIdle
    /\ ScaleIdle

AdbUnchanged ==
    UNCHANGED <<box_norm, width, height, box_px, data, raw_comps, i,
                final_components, result, response, reqVars,
                ui_hierarchy_xml>>

\* adb = ADBHelper(device_id, use_root) (lines 22-38)
ConstructADB ==
    /\ pc = "adb_new"
    /\ \E device_id \in DeviceIds, use_root \in BOOLEAN, probe \in RunOutcomes :
          /\ adb' = ADBHelper(device_id, use_root, probe)
          /\ commands' = IF use_root THEN <<Ran("su -c 'id'", probe)>>
                         ELSE <<>>
          /\ returned' = [requested |-> use_root]
    /\ pc' = "adb_ready"
    /\ AdbUnchanged

\* adb.dump_ui_hierarchy(use_root_method) (lines 190-225)
DumpUiHierarchy ==
    /\ pc = "adb_ready"
    /\ \E use_root_method \in {"None", "True", "False"},
          o1 \in RunOutcomes, o2 \in RunOutcomes, o3 \in RunOutcomes :
          LET got == dump_ui_hierarchy(adb, use_root_method, o1, o2, o3)
          IN  /\ commands' = got.log
              /\ returned' = [dump |-> got.ret,
                              use_root_method |-> use_root_method]
    /\ pc' = "adb_returned"
    /\ UNCHANGED adb
    /\ AdbUnchanged

\* adb.configure_optimal_visual_settings() (lines 84-130)
ConfigureOptimalVisualSettings ==
    /\ pc = "adb_ready"
    /\ \E f \in [1..Len(SettingCommands) -> BOOLEAN] :
          /\ commands' = [k \in 1..Len(SettingCommands) |->
                             Ran(SettingCommands[k], [ok |-> f[k], out |-> ""])]
          /\ returned' = [settings |-> configure_optimal_visual_settings(f)]
    /\ pc' = "adb_returned"
    /\ UNCHANGED adb
    /\ AdbUnchanged

\* the caller has its result and goes on to its next call on the helper
NextCall ==
    /\ pc = "adb_returned"
    /\ pc' = "adb_ready"
    /\ commands' = <<>>
    /\ returned' = Unset
    /\ UNCHANGED adb
    /\ AdbUnchanged

NextADB ==
    \/ ConstructADB
    \/ DumpUiHierarchy
    \/ ConfigureOptimalVisualSettings
    \/ NextCall

SpecADB == InitADB /\ [][NextADB]_vars

(***************************************************************************)
(* analyze_screenshot_with_hierarchy and ADBHelper.parse_ui_hierarchy.     *)
(* A UI dump is a text; the texts of the model are None, "", a text that   *)
(* is no XML, and documents [t |-> "xml", root |-> nodes]: the children of *)
(* the root element in document order.  A node carries its attributes and  *)
(* its children; an attribute the node lacks reads as "" (node.get's       *)
(* default).  The resource-id k stands for the string "id/k", and the      *)
(* bounds attribute is the sequence of the integers it spells: <<>> is "", *)
(* <<1, 2, 3, 4>> is "[1,2][3,4]".                                         *)
(***************************************************************************)
\* most nodes of a document
MaxNodes == 60

\* the slice [:50] of ui_elements_from_hierarchy
MaxHierarchyElements == 50

Node(k, class, text, content_desc, bnds, clickable, children) ==
    [class |-> class, resource_id |-> k, text |-> text,
     content_desc |-> content_desc, bounds |-> bnds, clickable |-> clickable,
     children |-> children]

\* a node without children: clickable, with a text, with a description,
\* with clickable="TRUE" only (not the string "true"), or with nothing
Leaf(k, kind) ==
    Node(k, "android.widget.View",
         IF kind = "text" THEN "Sign in" ELSE "",
         IF kind = "desc" THEN "Back" ELSE "",
         IF k % 2 = 0 THEN <<k, 0, k + 1, 10>> ELSE <<>>,
         IF kind = "clickable" THEN "true"
         ELSE IF kind = "upper" THEN "TRUE" ELSE "false",
         <<>>)

LeafKinds(k) ==
    [all   |-> "clickable",
     none  |-> "plain",
     mixed |-> IF k % 10 = 0 THEN "plain"
               ELSE IF k % 20 = 5 THEN "upper"
               ELSE IF k % 3 = 0 THEN "text"
               ELSE IF k % 3 = 1 THEN "desc" ELSE "clickable"]

Xml(nodes) == [t |-> "xml", root |-> nodes]

\* n nodes side by side under the root
Flat(n, pattern) == Xml([k \in 1..n |-> Leaf(k, LeafKinds(k)[pattern])])

\* a layout with nested nodes; node 2 has bounds that spell two integers
\* only, node 6 has more than four
Nested ==
    Xml(<<Node(1, "android.widget.FrameLayout", "", "", <<0, 0, 45, 3>>,
               "false",
               <<Node(2, "android.widget.Button", "OK", "", <<1, 2>>, "true",
                      <<>>),
                 Node(3, "android.widget.LinearLayout", "", "", <<>>, "false",
                      <<Leaf(4, "desc"), Leaf(5, "plain")>>)>>),
          Node(6, "android.widget.TextView", "Title", "",
               <<0, 0, 45, 1, 9, 9>>, "false", <<>>)>>)

Hierarchies ==
    {JNull, JStr(""), JStr("not a dump"), Nested}
    \cup {Flat(n, pattern) :
              n \in {0, 1, 2, MaxHierarchyElements - 1, MaxHierarchyElements,
                     MaxHierarchyElements + 1, MaxNodes},
              pattern \in {"all", "none", "mixed"}}

\* lines 260-272: the entry bounds_parsed, absent (None for elem.get) when
\* the attribute is empty or does not spell four integers
bounds_parsed(bnds) ==
    IF Len(bnds) >= 4
    THEN [x_min |-> bnds[1], y_min |-> bnds[2],
          x_max |-> bnds[3], y_max |-> bnds[4]]
    ELSE JNull

\* lines 248-258: the element of a node
Element(node, depth) ==
    [class         |-> node.class,
     resource_id   |-> node.resource_id,
     text          |-> node.text,
     content_desc  |-> node.content_desc,
     bounds        |-> node.bounds,
     clickable     |-> node.clickable = "true",
     depth         |-> depth,
     bounds_parsed |-> bounds_parsed(node.bounds)]

\* parse_node over a sequence of siblings: each node, then its children
RECURSIVE parse_nodes(_, _)
parse_nodes(nodes, depth) ==
    IF nodes = <<>> THEN <<>>
    ELSE <<Element(Head(nodes), depth)>>
         \o parse_nodes(Head(nodes).children, depth + 1)
         \o parse_nodes(Tail(nodes), depth)

\* parse_ui_hierarchy(xml_content): the elements, None when ET.fromstring
\* raises
parse_ui_hierarchy(xml_content) ==
    IF xml_content.t = "xml" THEN [elements |-> parse_nodes(xml_content.root, 0)]
    ELSE JNull

\* the condition of the comprehension
Relevant(elem) == elem.clickable \/ elem.text # "" \/ elem.content_desc # ""

\* the mapping built for one element
Projected(elem) ==
    [resource_id  |-> elem.resource_id,
     text         |-> elem.text,
     content_desc |-> elem.content_desc,
     class        |-> elem.class,
     bounds       |-> elem.bounds_parsed,
     clickable    |-> elem.clickable]

\* (mutant of ui_elements_from_hierarchy: the list is not cut)
ui_elements_uncut(parsed_elements) ==
    LET kept == SelectSeq(parsed_elements, Relevant)
    IN  [j \in 1..Len(kept) |-> Projected(kept[j])]

\* lines 674-685: the list stored under ui_elements_from_hierarchy
ui_elements_from_hierarchy(parsed_elements) ==
    LET kept == SelectSeq(parsed_elements, Relevant)
    IN  [j \in 1..Min(MaxHierarchyElements, Len(kept)) |->
             Projected(kept[j])]

\* "not ui_hierarchy_xml" for the texts of the model
NoHierarchy(xml) == xml.t = "null" \/ (xml.t = "str" /\ xml.s = "")

\* analyze_screenshot_with_hierarchy after its call of analyze_screenshot
\* returned base_result; raised: the body of the try raised
analyze_screenshot_with_hierarchy(base_result, xml, available, raised) ==
    IF NoHierarchy(xml) \/ ~available THEN base_result
    ELSE IF raised THEN base_result
    ELSE LET result_dict == json_loads(base_result).value
             parsed      == parse_ui_hierarchy(xml)
         IN  IF parsed # JNull /\ parsed.elements # <<>>
             THEN json_dumps(
                      [hierarchy_elements_count   |-> Len(parsed.elements),
                       hierarchy_available        |-> TRUE,
                       ui_elements_from_hierarchy |->
                           ui_elements_from_hierarchy(parsed.elements)]
                      @@ result_dict)
             ELSE json_dumps(result_dict)

\* results analyze_screenshot returns: failures and analyses
BaseResults ==
    {json_dumps(ErrorResult("empty_or_invalid_input",
                            "Image data is empty or not a string")),
     json_dumps(ErrorResult("ai_provider_error", "RetryError")),
     json_dumps(Assembled(JDict([summary |-> JStr("Login screen")]),
                          45, 3, <<>>)),
     json_dumps(Assembled(JDict([summary |-> JStr("Login screen")]), 45, 3,
                          SanitizeItem(JDict(BaseFields), 0, 45, 3)))}

InitHierarchy ==
    /\ pc = "hierarchy_call"
    /\ ui_hierarchy_xml \in Hierarchies
    /\ env \in [ADBHelper : BOOLEAN]
    /\ response = Unset
    /\ returned = Unset
    /\ adb = Unset
    /\ commands = <<>>
    /\ width = Unset
    /\ height = Unset
    /\ image_base64 = JNull
    /\ image_bytes = Unset
    /\ img = Unset
    /\ handler = JNull
    /\ constructed = 0
    /\ attempt_number = 0
    /\ last_exc = Unset
    /\ reply = Unset
    /\ calls = NoCalls
    /\ requests = 0
    /\ threads = <<>>
    /\ waited = <<>>
    /\ SanitizeIdle
    /\ ScaleIdle

HierarchyUnchanged ==
    UNCHANGED <<box_norm, width, height, box_px, data, raw_comps, i,
                final_components, result, image_base64, image_bytes, img,
                env, handler, constructed, attempt_number, reply,
                calls, threads, waited, adb, commands, ui_hierarchy_xml>>

\* line 661: base_result = analyze_screenshot(image_base64)
AnalyzeBase ==
    /\ pc = "hierarchy_call"
    /\ response' \in BaseResults
    /\ requests' = requests + 1
    /\ pc' = "hierarchy_base"
    /\ UNCHANGED <<returned, last_exc>>
    /\ HierarchyUnchanged

\* lines 663-695: the rest of the tool, up to its return
Enhance ==
    /\ pc = "hierarchy_base"
    /\ \E raised \in BOOLEAN :
           /\ returned' = analyze_screenshot_with_hierarchy(
                              response, ui_hierarchy_xml, env.ADBHelper,
                              raised)
           /\ last_exc' = IF raised /\ ~NoHierarchy(ui_hierarchy_xml)
                              /\ env.ADBHelper
                           THEN Exc("MemoryError", "")
                           ELSE Unset
    /\ pc' = "hierarchy_returned"
    /\ UNCHANGED <<response, requests>>
    /\ HierarchyUnchanged

NextHierarchy ==
    \/ AnalyzeBase
    \/ Enhance

SpecHierarchy == InitHierarchy /\ [][NextHierarchy]_vars

(***************************************************************************)
(* _get_handler under a host that runs requests in several threads: each   *)
(* thread is at line 390 of its own request; the interpreter may switch    *)
(* threads between the test of the global, the constructor call and the    *)
(* assignment (lines 287-298 hold no lock).                                *)
(***************************************************************************)
Threads == 1..MaxThreads

\* a thread outside _get_handler, with what its last call gave
ThreadIdle(got) == [at |-> "idle", new |-> Unset, got |-> got]

InitRace ==
    /\ pc = "idle"
    /\ env \in Envs
    /\ \E client \in ClientOutcomes : handler = ImportedHandler(env, client)
    /\ constructed = IF handler = JNull THEN 0 ELSE 1
    /\ threads = [t \in Threads |-> ThreadIdle(Unset)]
    /\ waited = <<>>
    /\ image_base64 = JNull
    /\ image_bytes = Unset
    /\ img = Unset
    /\ width = Unset
    /\ height = Unset
    /\ attempt_number = 0
    /\ last_exc = Unset
    /\ reply = Unset
    /\ calls = NoCalls
    /\ requests = 0
    /\ response = Unset
    /\ SanitizeIdle
    /\ ScaleIdle
    /\ AdbIdle

RaceUnchanged ==
    UNCHANGED <<pc, box_norm, width, height, box_px, data, raw_comps, i,
                final_components, result, response, image_base64,
                image_bytes, img, env, attempt_number, last_exc, reply,
                calls, requests, waited, adbVars>>

\* thread t calls _get_handler() (line 390)
Enter(t) ==
    /\ threads[t].at = "idle"
    /\ threads' = [threads EXCEPT ![t] = [at |-> "test", new |-> Unset,
                                          got |-> Unset]]
    /\ UNCHANGED <<handler, constructed>>
    /\ RaceUnchanged

\* if handler is None: (line 287)
TestHandler(t) ==
    /\ threads[t].at = "test"
    /\ threads' = [threads EXCEPT ![t].at =
                      IF handler = JNull THEN "construct" ELSE "return"]
    /\ UNCHANGED <<handler, constructed>>
    /\ RaceUnchanged

\* lines 288-297: the credential test and the constructor call, by a thread
\* that found the global None; the new backend is not stored yet
Construct(t) ==
    /\ threads[t].at = "construct"
    /\ \E client \in ClientOutcomes :
          LET got == get_handler(JNull, env, client, constructed + 1)
          IN  IF "handler" \in DOMAIN got
              THEN /\ threads' = [threads EXCEPT ![t].at = "assign",
                                                 ![t].new = got.handler]
                   /\ constructed' = constructed + 1
              ELSE /\ threads' = [threads EXCEPT ![t] = ThreadIdle(got)]
                   /\ UNCHANGED constructed
    /\ UNCHANGED handler
    /\ RaceUnchanged

\* handler = GoogleBackend(...) / OpenAIBackend(...): the store to the
\* global (lines 292, 294)
AssignHandler(t) ==
    /\ threads[t].at = "assign"
    /\ handler' = threads[t].new
    /\ threads' = [threads EXCEPT ![t].at = "return"]
    /\ UNCHANGED constructed
    /\ RaceUnchanged

\* return handler (line 298)
ReturnHandler(t) ==
    /\ threads[t].at = "return"
    /\ threads' = [threads EXCEPT ![t] = ThreadIdle([handler |-> handler])]
    /\ UNCHANGED <<handler, constructed>>
    /\ RaceUnchanged

NextRace ==
    \E t \in Threads :
        \/ Enter(t)
        \/ TestHandler(t)
        \/ Construct(t)
        \/ AssignHandler(t)
        \/ ReturnHandler(t)

SpecRace == InitRace /\ [][NextRace]_vars

(***************************************************************************)
(* Properties of scale_box (checked under SpecScale).                      *)
(***************************************************************************)
NumBox(a, b, c, d) == JList(<<JInt(a), JInt(b), JInt(c), JInt(d)>>)
IsPixelBox(r) == "x_min" \in DOMAIN r
\* the call is over and its box was four numbers
CalledOnNumbers == pc # "call" /\ box_norm \in NumBoxes
\* element k of a box of four numbers
Elem(b, k) == b.items[k].v

\* C1: for every box of 4 numbers and every image with width >= 1 and
\* height >= 1, scale_box returns a PixelBox with x_max > x_min and
\* y_max > y_min, so that its width and height are both >= 1.
C1_PositiveArea ==
    CalledOnNumbers =>
        /\ pc = "returned"
        /\ IsPixelBox(box_px)
        /\ box_px.x_max > box_px.x_min
        /\ box_px.y_max > box_px.y_min
        /\ box_px.width >= 1
        /\ box_px.height >= 1

\* C3: scale_box never rejects a 4-number box for being out of range: for
\* every such box and every image the result is a PixelBox with
\* 0 <= x_min <= x_max <= W and 0 <= y_min <= y_max <= H and all fields
\* non-negative integers, and it is the result for the box with each value
\* clamped to [0, 1000]; [-100,-100,1100,1100] on 1000x1000 gives the corners
\* 0, 0, 1000, 1000.
C3_ClampedInsideImage ==
    CalledOnNumbers =>
        /\ pc = "returned"
        /\ IsPixelBox(box_px)
        /\ 0 <= box_px.x_min /\ box_px.x_min <= box_px.x_max
        /\ box_px.x_max <= width
        /\ 0 <= box_px.y_min /\ box_px.y_min <= box_px.y_max
        /\ box_px.y_max <= height
        /\ \A f \in DOMAIN box_px : box_px[f] \in Nat
        /\ box_px = scale_box(
               JList([k \in 1..4 |->
                        JInt(IF Elem(box_norm, k) < 0 THEN 0
                             ELSE IF Elem(box_norm, k) > 1000 THEN 1000
                             ELSE Elem(box_norm, k))]),
               width, height)
        /\ (box_norm = NumBox(-100, -100, 1100, 1100)
                /\ width = 1000 /\ height = 1000)
           => (box_px.x_min = 0 /\ box_px.y_min = 0
                /\ box_px.x_max = 1000 /\ box_px.y_max = 1000)

\* witness of C3: the out-of-range box of the tests was scaled on 1000x1000
C3_Witness ==
    /\ pc = "returned"
    /\ box_norm = NumBox(-100, -100, 1100, 1100)
    /\ width = 1000 /\ height = 1000
    /\ box_px.x_min = 0 /\ box_px.x_max = 1000

\* a sequence of exactly 4 numeric values
IsFourNumbers(b) ==
    /\ b.t = "list"
    /\ Len(b.items) = 4
    /\ \A k \in 1..4 : b.items[k].t = "int"

\* C4: scale_box returns {error: invalid_box} and never raises for every box
\* that is not a sequence of exactly 4 numeric values: null, an empty
\* sequence, a sequence of wrong arity, a 4-element sequence with a
\* non-numeric element.
C4_InvalidBoxIsError ==
    (pc # "call" /\ ~IsFourNumbers(box_norm)) =>
        /\ pc = "returned"
        /\ "error" \in DOMAIN box_px
        /\ box_px.error = "invalid_box"

\* the box with its y pair and / or its x pair exchanged
SwapBox(b, swap_y, swap_x) ==
    NumBox(Elem(b, IF swap_y THEN 3 ELSE 1), Elem(b, IF swap_x THEN 4 ELSE 2),
           Elem(b, IF swap_y THEN 1 ELSE 3), Elem(b, IF swap_x THEN 2 ELSE 4))

\* C5: axis inversion is corrected, not rejected: scale_box of a box with the
\* y pair and / or the x pair swapped returns exactly the PixelBox (all eight
\* fields) of the box in the other order.
C5_InversionCorrected ==
    CalledOnNumbers =>
        /\ pc = "returned"
        /\ IsPixelBox(box_px)
        /\ \A swap_y, swap_x \in BOOLEAN :
              scale_box(SwapBox(box_norm, swap_y, swap_x), width, height) = box_px

\* witness of C5: the inverted box of the tests gave the PixelBox of
\* [0, 0, 500, 500]
C5_Witness ==
    /\ pc = "returned"
    /\ box_norm = NumBox(500, 500, 0, 0)
    /\ width = 1000 /\ height = 1000
    /\ box_px.x_min = 0 /\ box_px.x_max = 500
    /\ box_px.center_x = 250 /\ box_px.center_y = 250
    /\ box_px.width = 500 /\ box_px.height = 500

\* C6: for every PixelBox scale_box returns, center_x = (x_min + x_max) // 2
\* and center_y = (y_min + y_max) // 2 (floor division), hence
\* x_min <= center_x <= x_max and y_min <= center_y <= y_max, and
\* width = x_max - x_min and height = y_max - y_min, taken after the
\* degenerate-box repair (a degenerate box inside the image gets size 1).
C6_CenterAndSize ==
    (pc = "returned" /\ IsPixelBox(box_px)) =>
        /\ 2 * box_px.center_x <= box_px.x_min + box_px.x_max
        /\ box_px.x_min + box_px.x_max <= 2 * box_px.center_x + 1
        /\ 2 * box_px.center_y <= box_px.y_min + box_px.y_max
        /\ box_px.y_min + box_px.y_max <= 2 * box_px.center_y + 1
        /\ box_px.x_min <= box_px.center_x /\ box_px.center_x <= box_px.x_max
        /\ box_px.y_min <= box_px.center_y /\ box_px.center_y <= box_px.y_max
        /\ box_px.width = box_px.x_max - box_px.x_min
        /\ box_px.height = box_px.y_max - box_px.y_min
        /\ (box_norm = NumBox(250, 250, 250, 250) /\ width = 1000 /\ height = 1000)
           => (box_px.x_max = 251 /\ box_px.width = 1 /\ box_px.height = 1)

\* witness of C6: a repaired box whose corners have an odd sum
C6_Witness ==
    /\ pc = "returned"
    /\ box_norm = NumBox(250, 250, 250, 250)
    /\ width = 1000 /\ height = 1000
    /\ box_px.x_min = 250 /\ box_px.x_max = 251
    /\ box_px.center_x = 250 /\ box_px.width = 1

\* round(v / 1000 * dim) in exact arithmetic, exact midpoints decided by rule
RoundExact(rule, v, dim) ==
    LET fl  == (v * dim) \div 1000
        rem == (v * dim) % 1000
    IN  IF rem < 500 THEN fl
        ELSE IF rem > 500 THEN fl + 1
        ELSE IF rule = "half_up" THEN fl + 1
        ELSE IF rule = "half_down" THEN fl
        ELSE IF fl % 2 = 0 THEN fl ELSE fl + 1

\* C7: for an in-range, ordered, non-degenerate box [y1,x1,y2,x2], scale_box
\* maps each of the four values independently to round(v / 1000 * dimension)
\* with one rounding rule for exact midpoints (half-to-even, half-up or
\* half-down);
\* e.g. [0,0,500,500] on 1000x1000 gives center (250,250) and size 500x500.
C7_RoundEachValue ==
    (/\ pc = "returned"
     /\ box_norm \in NumBoxes
     /\ \A k \in 1..4 : 0 <= Elem(box_norm, k) /\ Elem(box_norm, k) <= 1000
     /\ Elem(box_norm, 1) < Elem(box_norm, 3)
     /\ Elem(box_norm, 2) < Elem(box_norm, 4)
     /\ box_px.width >= 2 /\ box_px.height >= 2)
    => \E rule \in {"half_even", "half_up", "half_down"} :
          /\ box_px.y_min = RoundExact(rule, Elem(box_norm, 1), height)
          /\ box_px.x_min = RoundExact(rule, Elem(box_norm, 2), width)
          /\ box_px.y_max = RoundExact(rule, Elem(box_norm, 3), height)
          /\ box_px.x_max = RoundExact(rule, Elem(box_norm, 4), width)
          /\ (box_norm = NumBox(0, 0, 500, 500) /\ width = 1000 /\ height = 1000)
             => (box_px.center_x = 250 /\ box_px.center_y = 250
                  /\ box_px.width = 500 /\ box_px.height = 500)

(***************************************************************************)
(* Properties of the sanitizing loop (checked under SpecSanitize).         *)
(***************************************************************************)
ZeroBox == JList(<<JInt(0), JInt(0), JInt(0), JInt(0)>>)
IsMapping(c) == c.t = "dict"
HasField(c, key) == IsMapping(c) /\ key \in DOMAIN c.d
\* the k-th smallest element of a set of indices
Nth(S, k) == CHOOSE x \in S : Cardinality({y \in S : y < x}) = k - 1
\* the sets of raw positions that may have produced the n output components
Origins(n, m) == {S \in SUBSET (1..m) : Cardinality(S) = n}
\* the type the whitelist gives a raw item
TypeWanted(c) ==
    IF HasField(c, "type") /\ c.d.type.t = "str" /\ c.d.type.s \in ALLOWED_TYPES
    THEN c.d.type ELSE JStr("other")
\* the tags a raw item passes on
TagsWanted(c) ==
    IF HasField(c, "tags") /\ c.d.tags.t = "list" THEN c.d.tags ELSE JList(<<>>)

\* C2: a raw component with no box_2d field is dropped by the sanitizing
\* loop: it is not in the output (so the output has at most as many
\* components as raw items carry a box_2d field), and no output component
\* has the default zero box with its click target at the origin.
C2_MissingBoxDropped ==
    pc = "done" =>
        /\ Len(final_components)
             <= Cardinality({k \in 1..Len(raw_comps) : HasField(raw_comps[k], "box_2d")})
        /\ \A j \in 1..Len(final_components) :
              /\ final_components[j].box_norm # ZeroBox
              /\ ~(final_components[j].box_px.center_x = 0
                    /\ final_components[j].box_px.center_y = 0)

\* the raw items that are a mapping with a usable box
UsableItems ==
    {k \in 1..Len(raw_comps) :
        HasField(raw_comps[k], "box_2d") /\ IsFourNumbers(raw_comps[k].d.box_2d)}

\* C8: every raw component that is a mapping with a usable box is kept,
\* whatever its type field holds (absent, a string outside the enumeration,
\* a non-string value): with type "other", or with its own type when that
\* is in the enumeration, and with its id, label, tags and box passed
\* through; an unrecognized type never drops the component.
C8_UnknownTypeKeptAsOther ==
    pc = "done" =>
        \A k \in UsableItems :
            \E j \in 1..Len(final_components) :
                LET c == raw_comps[k]
                    o == final_components[j]
                IN  /\ o.type = TypeWanted(c)
                    /\ o.id = Get(c, "id", JInt(k))
                    /\ o.label = Get(c, "label", JStr("unknown"))
                    /\ o.tags = TagsWanted(c)
                    /\ o.box_norm = c.d.box_2d

\* C9: every output component has an integer id: the provider's id when it
\* is a valid integer, and otherwise (absent, a string, null) the position
\* of the component in the raw list plus 1.
C9_IdIsInteger ==
    pc = "done" =>
        /\ \A j \in 1..Len(final_components) : final_components[j].id.t = "int"
        /\ \E S \in Origins(Len(final_components), Len(raw_comps)) :
              \A j \in 1..Len(final_components) :
                  LET c == raw_comps[Nth(S, j)]
                  IN  final_components[j].id =
                          IF HasField(c, "id") /\ c.d.id.t = "int"
                          THEN c.d.id ELSE JInt(Nth(S, j))

\* output component o is raw item c, emitted at position pos (1-based), with
\* its id, label, type, tags and box as the provider gave them
FromRaw(o, c, pos) ==
    /\ IsMapping(c)
    /\ o.id = Get(c, "id", JInt(pos))
    /\ o.label = Get(c, "label", JStr("unknown"))
    /\ o.type = TypeWanted(c)
    /\ o.tags = TagsWanted(c)
    /\ o.box_norm = Get(c, "box_2d", ZeroBox)

\* C10: the output components are a subsequence of the raw provider list:
\* survivors keep the provider's order, none is duplicated or reordered, and
\* ids are neither deduplicated nor renumbered (a raw id is passed on as it
\* is, so two raw components with the same id both keep it).  It holds after
\* every iteration for the items seen so far, and of the result.
C10_OutputIsSubsequence ==
    /\ pc \in {"loop", "done"} =>
          \E S \in Origins(Len(final_components), i) :
              \A j \in 1..Len(final_components) :
                  FromRaw(final_components[j], raw_comps[Nth(S, j)], Nth(S, j))
    /\ pc = "done" =>
          /\ i = Len(raw_comps)
          /\ result.components = final_components
          /\ result.component_count = Len(final_components)

\* witness of C10: an item was dropped between two components that carry the
\* same id, and both are in the result, in the provider's order
C10_Witness ==
    /\ pc = "done"
    /\ raw_comps = <<With("type", JStr("widget")), JStr("junk"), JDict(BaseFields)>>
    /\ Len(result.components) = 2
    /\ result.components[1].id = JInt(7) /\ result.components[1].type = JStr("other")
    /\ result.components[2].id = JInt(7) /\ result.components[2].type = JStr("button")

\* a raw item with every field of the response schema, each of its type
WellFormed(c) ==
    /\ IsMapping(c)
    /\ DOMAIN c.d = {"id", "label", "type", "tags", "box_2d"}
    /\ c.d.id.t = "int"
    /\ c.d.label.t = "str"
    /\ c.d.type.t = "str"
    /\ c.d.tags.t = "list"
    /\ IsFourNumbers(c.d.box_2d)

Failed == pc = "done" /\ "error" \in DOMAIN response.json
Succeeded == pc = "done" /\ "components" \in DOMAIN response.json
\* the code of the failure result
ErrorCode == response.json.error

\* a non-empty str that is base64 (RFC 4648): complete groups of four
\* characters of the alphabet, the last one padded with "=" to four
WellEncoded(x) ==
    /\ x.t = "str"
    /\ x # EmptyText
    /\ ~x.junk
    /\ \/ x.data = 0 /\ x.pads = 0
       \/ x.data = 2 /\ x.pads = 2
       \/ x.data = 3 /\ x.pads = 1

\* C12: input that is empty, no string or no valid base64 always yields
\* empty_or_invalid_input or invalid_base64 and never touches the backend
\* (no call of _get_handler, no call of generate); and generate is invoked
\* only after input validation, image loading and dimension validation
\* have passed.
C12_InvalidInputNeverReachesBackend ==
    /\ (pc \notin {"idle", "input_validation"} /\ ~WellEncoded(image_base64)) =>
          /\ Failed
          /\ ErrorCode \in {"empty_or_invalid_input", "invalid_base64"}
          /\ calls = NoCalls
    /\ calls.generate > 0 =>
          /\ image_bytes \in 1..MAX_IMAGE_BYTES
          /\ img # Unset
          /\ width \in 1..MAX_DIMENSION
          /\ height \in 1..MAX_DIMENSION

\* the retried call is over because its attempts are used up
Exhausted == last_exc # Unset /\ last_exc.type = "RetryError"

\* C13: generate makes at most 3 provider attempts per request and stops at
\* the first success: no attempt is made once 3 were made or once one
\* succeeded, and a call whose first two attempts fail and whose third
\* succeeds gives a successful result with exactly 3 attempts.
C13_AtMostThreeAttempts ==
    /\ [](/\ attempt_number <= 3
          /\ pc = "generate" => attempt_number < 3
          /\ (pc = "done" /\ attempt_number = 3 /\ ~Exhausted /\ data.t = "dict")
                => Succeeded)
    /\ [][attempt_number' > attempt_number =>
             /\ pc = "generate"
             /\ attempt_number < 3
             /\ attempt_number' = attempt_number + 1
             /\ GenerateOnce(handler, reply').ok <=> pc' = "backend_returned"
             /\ pc' = "generate" =>
                    last_exc' = GenerateOnce(handler, reply').exc]_vars

\* witness of C13: two failed attempts, then the third succeeded, and the
\* request returned its components
C13_Witness ==
    /\ Succeeded
    /\ attempt_number = 3
    /\ last_exc # Unset /\ last_exc.type = "TimeoutError"
    /\ reply.kind = "text"
    /\ response.json.component_count = 1

\* C14: when the provider call fails on all 3 attempts, whatever the
\* exception, the result is ai_provider_error (never configuration_error or
\* internal_error) with the message of the underlying failure in its
\* message field, and without components.
C14_ExhaustedIsProviderError ==
    (pc = "done" /\ Exhausted) =>
        /\ attempt_number = 3
        /\ response.json =
              ErrorResult("ai_provider_error", last_exc.last_attempt.msg)

\* the configuration cannot give a backend: no credential, an unknown
\* provider, or the client library of the selected provider is missing
BrokenConfiguration(e) ==
    \/ ~Truthy(e.API_KEY)
    \/ e.PROVIDER \notin {"google", "openai"}
    \/ e.PROVIDER = "google" /\ ~e.genai
    \/ e.PROVIDER = "openai" /\ ~e.OpenAI

\* C15: a backend initialisation failure (missing credential, invalid
\* provider selection, missing client library) makes the request return
\* configuration_error, not ai_provider_error, with no retry and without
\* calling generate; GoogleBackend constructed without a key raises the
\* "API key required" error.
C15_InitFailureIsConfigurationError ==
    /\ (pc = "done" /\ calls.get_handler = 1 /\ BrokenConfiguration(env)) =>
          /\ Failed
          /\ ErrorCode = "configuration_error"
          /\ calls.generate = 0
          /\ attempt_number = 0
    /\ (env # Unset /\ env.genai) =>
          GoogleBackend(env, JNull, JStr(""), JNull, 1) =
              [raise |-> Exc("ValueError", "API key required for Google backend")]

\* the JSON value the last reply of the provider carries, if it carries one
Carried ==
    IF reply = Unset THEN Unset
    ELSE IF reply.kind = "parsed" THEN [value |-> reply.value]
    ELSE IF reply.kind = "text" /\ reply.text # Garbage
    THEN [value |-> reply.text.json]
    ELSE Unset

\* C16: in GoogleBackend.generate a provider result that is no mapping, or a
\* mapping without the components key, is a recoverable shape error: it is
\* returned with components == [], the request does not fail and no retry
\* is spent on it.
C16_ShapeErrorCoerced ==
    (/\ handler # JNull /\ handler.cls = "GoogleBackend"
     /\ Carried # Unset
     /\ \/ Carried.value.t # "dict"
        \/ "components" \notin DOMAIN Carried.value.d) =>
        /\ pc \in {"backend_returned", "loop", "done"}
        /\ data.t = "dict"
        /\ data.d.components = JList(<<>>)
        /\ pc = "done" => (Succeeded /\ response.json.component_count = 0)

\* the stable error codes
ErrorCodes ==
    {"empty_or_invalid_input", "invalid_base64", "empty_decoded_image",
     "image_too_large", "invalid_image_format", "invalid_dimensions",
     "dimensions_too_large", "configuration_error", "ai_provider_error",
     "internal_error"}

\* C18: analyze_screenshot never lets an exception out: every step of a
\* request has a next step until it returns, what it returns is a JSON text
\* (of a result or of a failure with a stable code), and a backend that
\* returned a value that is no mapping is reported as internal_error.
C18_AlwaysReturnsJson ==
    /\ pc \notin {"idle", "done"} =>
          ENABLED (ValidateInput \/ LoadImage \/ GetHandler \/ Attempt
                     \/ GetComponents \/ ProcessComponent \/ Assemble)
    /\ pc = "done" =>
          /\ DOMAIN response = {"json"}
          /\ Failed \/ Succeeded
          /\ Failed => ErrorCode \in ErrorCodes
          /\ (calls.generate = 1 /\ ~Exhausted /\ data.t # "dict")
                => (Failed /\ ErrorCode = "internal_error")

\* witness of C18: the backend returned a list, the request returned
\* internal_error
C18_Witness ==
    /\ Failed
    /\ ErrorCode = "internal_error"
    /\ calls.generate = 1
    /\ data = JList(<<JInt(1)>>)
    /\ handler.cls = "OpenAIBackend"

\* C19: every failure result is an object with an error field holding one
\* of the stable codes and a message string field, and nothing else (no
\* summary, no components).
C19_FailureHasCodeAndMessage ==
    Failed =>
        /\ DOMAIN response.json = {"error", "message"}
        /\ ErrorCode \in ErrorCodes

(***************************************************************************)
(* Properties of the result (checked under SpecSanitize).                  *)
(***************************************************************************)
\* step 5 is running or over, on a mapping returned by the backend
OnMapping ==
    pc \in {"backend_returned", "loop", "done"} /\ data.t = "dict"

\* C20: once the backend call has returned a mapping the request always
\* succeeds: step 5 runs to its return, and the result has summary,
\* resolution, components and component_count, the count being the number
\* of components of the result; also when no component survives (all
\* dropped, components absent, components no list): an empty detection set
\* is never an error.
C20_MappingAlwaysSucceeds ==
    OnMapping =>
        /\ pc # "done" => ENABLED NextSanitize
        /\ pc = "done" =>
              /\ Succeeded
              /\ response = json_dumps(result)
              /\ DOMAIN result = {"summary", "resolution", "components",
                                  "component_count"}
              /\ result.resolution = [width |-> width, height |-> height]
              /\ result.components = final_components
              /\ result.component_count = Len(result.components)
              /\ Len(result.components) <= Len(RawComponents(data))

\* witness of C20: every raw component was dropped, the request returned a
\* success result with zero components
C20_Witness ==
    /\ pc = "done"
    /\ Len(RawComponents(data)) = 2
    /\ Succeeded
    /\ result.components = <<>>
    /\ result.component_count = 0

(***************************************************************************)
(* Properties of _get_handler under concurrent requests (checked under     *)
(* SpecRace).                                                              *)
(***************************************************************************)
\* C17: backend initialisation happens at most once per process under any
\* interleaving of concurrent requests: two requests that both find the
\* handler uninitialised never both construct a backend, the handler once
\* set is never replaced, and every later request gets that same instance.
C17_InitializedAtMostOnce ==
    /\ [](/\ constructed <= 1
          /\ \A t \in DOMAIN threads :
                "handler" \in DOMAIN threads[t].got =>
                    threads[t].got.handler = handler)
    /\ [][handler # JNull => handler' = handler]_vars

(***************************************************************************)
(* Properties of the retry schedule (checked under Spec).                  *)
(***************************************************************************)
\* C21: the waits between consecutive attempts of generate follow
\* exponential backoff: the wait after the first failed attempt is 2, each
\* further wait is twice the one before (4 after the second failed
\* attempt), no wait exceeds 10, and the waits of one request sum to at
\* most the sum of the schedule 2 + 4 + 8.
C21_ExponentialBackoff ==
    /\ Len(waited) >= 1 => waited[1] = 2
    /\ \A k \in 2..Len(waited) : waited[k] = 2 * waited[k - 1]
    /\ \A k \in 1..Len(waited) : waited[k] <= 10
    /\ Len(waited) <= 2
    /\ (IF Len(waited) = 0 THEN 0
        ELSE IF Len(waited) = 1 THEN waited[1]
        ELSE waited[1] + waited[2]) <= 2 + 4 + 8

(***************************************************************************)
(* Properties of image loading (checked under Spec).                       *)
(***************************************************************************)
\* the request has opened an image and the loading stage is over
Loaded == img # Unset /\ pc # "image_loading"

\* C22: EXIF orientation correction is best-effort and never fatal: the
\* tags 3, 6 and 8 rotate the image by 180, 270 and 90 degrees, any other
\* or missing tag leaves it unchanged, and a failure while reading the EXIF
\* data leaves it unchanged and lets the request go on to the backend call
\* (no invalid_image_format, no other error of the loading stage).
C22_OrientationNeverFatal ==
    Loaded =>
        /\ img.getexif = JNull =>
               img.rotated = (CASE img.orientation = 3 -> 180
                                [] img.orientation = 6 -> 270
                                [] img.orientation = 8 -> 90
                                [] OTHER -> 0)
        /\ img.getexif # JNull =>
               /\ img.rotated = 0
               /\ pc = "done" => calls.get_handler = 1

(***************************************************************************)
(* Properties of the backend constructors (checked under SpecImport).      *)
(***************************************************************************)
\* C23: each backend uses the configured model name when one is given and
\* its provider's default otherwise: GoogleBackend with an empty or missing
\* model uses models/gemini-flash-latest, OpenAIBackend with a missing
\* model uses gpt-4o-mini, a supplied model name is stored unchanged; the
\* endpoint override is optional (the backend exists with and without it).
C23_ModelDefaults ==
    (pc = "idle" /\ handler # JNull) =>
        /\ handler.cls = (IF env.PROVIDER = "google" THEN "GoogleBackend"
                          ELSE "OpenAIBackend")
        /\ env.MODEL_NAME = JStr("custom-model") =>
               handler.model = JStr("custom-model")
        /\ (env.MODEL_NAME \in {JNull, JStr("")}
              /\ handler.cls = "GoogleBackend") =>
               handler.model = JStr("models/gemini-flash-latest")
        /\ (env.MODEL_NAME \in {JNull, JStr("")}
              /\ handler.cls = "OpenAIBackend") =>
               handler.model = JStr("gpt-4o-mini")
        /\ handler.cls = "OpenAIBackend" =>
               handler.base_url \in {JNull, JStr("http://local")}
        /\ handler.base_url = JStr("http://local") =>
               env.BASE_URL = JStr("http://local")

\* witness of C23: an OpenAI backend built without a model name and without
\* an endpoint override has the default model
C23_Witness ==
    /\ pc = "idle"
    /\ handler # JNull
    /\ handler.cls = "OpenAIBackend"
    /\ env.MODEL_NAME = JNull
    /\ env.BASE_URL = JNull
    /\ handler.model = JStr("gpt-4o-mini")

(***************************************************************************)
(* Properties of ADBHelper (checked under SpecADB).                        *)
(***************************************************************************)
\* the constructor has just returned; returned.requested is its use_root
\* argument
JustConstructed == adb # Unset /\ "requested" \in DOMAIN returned

\* C24: after construction use_root is true only if root was requested and
\* the root probe succeeded: requested and available gives use_root ==
\* is_root_available == true, requested but unavailable gives both false,
\* not requested gives both false and runs no probe; so use_root implies
\* is_root_available in every constructed helper.
C24_UseRootImpliesAvailable ==
    adb # Unset =>
        /\ adb.use_root => adb.is_root_available
        /\ (JustConstructed /\ ~returned.requested) =>
               /\ ~adb.use_root
               /\ ~adb.is_root_available
               /\ commands = <<>>
        /\ (JustConstructed /\ returned.requested) =>
               /\ Len(commands) = 1
               /\ commands[1].cmd = "su -c 'id'"
               /\ adb.use_root = (commands[1].ok /\ HasUid0(commands[1].out))
               /\ adb.is_root_available = adb.use_root

\* witness of C24: root was requested, the probe ran and did not report
\* uid 0, the helper fell back to non-root mode
C24_Witness ==
    /\ JustConstructed
    /\ returned.requested
    /\ commands # <<>> /\ commands[1].ok /\ ~HasUid0(commands[1].out)
    /\ ~adb.use_root
    /\ ~adb.is_root_available

\* dump_ui_hierarchy has just returned
Dumped == adb # Unset /\ "dump" \in DOMAIN returned

\* root is selected (by the override, else by the helper) and available
RootSelected ==
    EffectiveRoot(adb, returned.use_root_method) /\ adb.is_root_available

\* C25: dump_ui_hierarchy tries the root method (dumpsys) first only when
\* root is selected and available and returns its output on success; when
\* the root command fails it falls back to the uiautomator method; the
\* uiautomator method returns (True, xml) only if the dump command and then
\* the read command both succeed, and (False, None) as soon as either
\* fails (no read after a failed dump).
C25_RootFirstThenUiautomator ==
    Dumped =>
        LET u == IF RootSelected THEN 2 ELSE 1
        IN  /\ commands # <<>>
            /\ (commands[1].cmd = DumpsysCommand) <=> RootSelected
            /\ \A k \in 2..Len(commands) : commands[k].cmd # DumpsysCommand
            /\ (RootSelected /\ commands[1].ok) =>
                   /\ Len(commands) = 1
                   /\ returned.dump = <<TRUE, JStr(commands[1].out)>>
            /\ ~(RootSelected /\ commands[1].ok) =>
                   /\ Len(commands) >= u
                   /\ commands[u].cmd = UiautomatorCommand
                   /\ ~commands[u].ok =>
                          /\ Len(commands) = u
                          /\ returned.dump = <<FALSE, JNull>>
                   /\ commands[u].ok =>
                          /\ Len(commands) = u + 1
                          /\ commands[u + 1].cmd = CatCommand
                          /\ returned.dump =
                                 IF commands[u + 1].ok
                                 THEN <<TRUE, JStr(commands[u + 1].out)>>
                                 ELSE <<FALSE, JNull>>

\* witness of C25: the root command failed, the uiautomator dump and the
\* read succeeded, the XML was returned
C25_Witness ==
    /\ Dumped
    /\ Len(commands) = 3
    /\ commands[1].cmd = DumpsysCommand /\ ~commands[1].ok
    /\ commands[2].ok /\ commands[3].ok
    /\ returned.dump = <<TRUE, JStr("<hierarchy/>")>>

\* configure_optimal_visual_settings has just returned
Configured == adb # Unset /\ "settings" \in DOMAIN returned

\* C26: configure_optimal_visual_settings always issues every command (2
\* layout-bounds, 3 animation, 5 demo-mode commands) in order, whatever
\* failed before, and always returns the keys layout_bounds,
\* animations_disabled and demo_mode: layout_bounds is true iff at least one
\* of the two layout commands succeeded, animations_disabled and demo_mode
\* are true iff all commands of their group succeeded.
C26_AllSettingsIssued ==
    Configured =>
        /\ Len(layout_commands) = 2
        /\ Len(anim_settings) = 3
        /\ Len(demo_commands) = 5
        /\ Len(commands) = 10
        /\ \A k \in 1..10 :
              commands[k].cmd =
                  (layout_commands \o anim_settings \o demo_commands)[k]
        /\ DOMAIN returned.settings =
              {"layout_bounds", "animations_disabled", "demo_mode"}
        /\ returned.settings.layout_bounds <=>
              (commands[1].ok \/ commands[2].ok)
        /\ returned.settings.animations_disabled <=>
              (\A k \in 3..5 : commands[k].ok)
        /\ returned.settings.demo_mode <=>
              (\A k \in 6..10 : commands[k].ok)

\* witness of C26: the first layout command and the first animation command
\* failed, every later command was still issued and succeeded
C26_Witness ==
    /\ Configured
    /\ Len(commands) = 10
    /\ ~commands[1].ok /\ commands[2].ok /\ ~commands[3].ok
    /\ \A k \in 4..10 : commands[k].ok
    /\ returned.settings = [layout_bounds |-> TRUE,
                            animations_disabled |-> FALSE,
                            demo_mode |-> TRUE]

(***************************************************************************)
(* Properties of the pipeline order (checked under Spec).                  *)
(***************************************************************************)
\* the position of a stage in the pipeline
StageRank ==
    [idle |-> 0, input_validation |-> 1, image_loading |-> 2,
     backend_call |-> 3, generate |-> 4, backend_returned |-> 5, loop |-> 6,
     done |-> 7]

\* the code of the earliest check that the data of the request fails, in
\* the order: empty / non-string input, base64 decode, empty payload,
\* payload above 6 MiB, image decode, non-positive side, side above 8000 px;
\* "none" when every check before the backend call passes
FirstFailure ==
    IF image_base64.t # "str" \/ image_base64 = EmptyText
    THEN "empty_or_invalid_input"
    ELSE IF ~b64decode(image_base64, env.strict_base64).ok
    THEN "invalid_base64"
    ELSE IF b64decode(image_base64, env.strict_base64).len = 0
    THEN "empty_decoded_image"
    ELSE IF b64decode(image_base64, env.strict_base64).len > 6 * 1024 * 1024
    THEN "image_too_large"
    ELSE IF img = Unset \/ "raise" \in DOMAIN fix_orientation(img)
    THEN "invalid_image_format"
    ELSE IF img.size[1] <= 0 \/ img.size[2] <= 0
    THEN "invalid_dimensions"
    ELSE IF img.size[1] > 8000 \/ img.size[2] > 8000
    THEN "dimensions_too_large"
    ELSE "none"

\* C27: analyze_screenshot is a linear pipeline whose first failing stage
\* decides the result and stops all later stages: the checks run in the
\* order of FirstFailure, then the backend invocation, then sanitizing; when
\* several checks would fail the code is that of the earliest; and no stage
\* is repeated but for the backend's internal retry.
C27_FirstFailingStageDecides ==
    /\ [](pc = "done" =>
            /\ FirstFailure # "none" =>
                   /\ Failed
                   /\ ErrorCode = FirstFailure
                   /\ calls = NoCalls /\ attempt_number = 0
                   /\ final_components = <<>> /\ result = Unset
            /\ (FirstFailure \in {"empty_or_invalid_input", "invalid_base64",
                                  "empty_decoded_image", "image_too_large"}) =>
                   img = Unset
            /\ (Failed /\ ErrorCode \in {"configuration_error",
                                          "ai_provider_error"}) =>
                   /\ FirstFailure = "none"
                   /\ calls.get_handler = 1
                   /\ final_components = <<>> /\ result = Unset
            /\ Succeeded =>
                   (FirstFailure = "none" /\ calls = [get_handler |-> 1,
                                                      generate |-> 1]))
    /\ [][(pc' # pc =>
               \/ StageRank[pc'] > StageRank[pc]
               \/ pc \in {"idle", "done"} /\ pc' = "input_validation")
           /\ ((pc' = pc /\ pc = "generate") =>
                  attempt_number' = attempt_number + 1)
           /\ ((pc' = pc /\ pc # "generate") =>
                  (pc = "loop" /\ i' = i + 1))]_vars

\* witness of C27: the image has a side of 0 and a side above the limit;
\* the request reports the earlier check, invalid_dimensions, and the
\* backend was not called
C27_Witness ==
    /\ Failed
    /\ img # Unset /\ img.size[1] = 0 /\ img.size[2] = 8001
    /\ ErrorCode = "invalid_dimensions"
    /\ calls = NoCalls

(***************************************************************************)
(* Properties of the OpenAI backend (checked under Spec).                  *)
(***************************************************************************)
EmptyResponse == Exc("ValueError", "Empty response from model")

\* C28: in OpenAIBackend.generate an empty message body is a failure
\* handled exactly like a transport error by the shared retry policy: it
\* spends one of the 3 attempts and is retried after the same wait, a third
\* failure ends the request with ai_provider_error, and an empty body
\* followed by a valid body within the budget gives a success.
C28_EmptyBodyRetried ==
    /\ [][(/\ pc = "generate"
            /\ handler.cls = "OpenAIBackend"
            /\ attempt_number' = attempt_number + 1
            /\ reply'.kind \in {"empty", "raise"}) =>
              /\ data' = data
              /\ attempt_number' <= 3
              /\ attempt_number' < 3 =>
                     /\ pc' = "generate"
                     /\ response' = response
                     /\ waited' = Append(waited, wait_exponential(attempt_number'))
                     /\ last_exc' = (IF reply'.kind = "empty" THEN EmptyResponse
                                     ELSE reply'.exc)
              /\ attempt_number' = 3 =>
                     /\ pc' = "done"
                     /\ waited' = waited
                     /\ last_exc'.type = "RetryError"
                     /\ last_exc'.last_attempt =
                            (IF reply'.kind = "empty" THEN EmptyResponse
                             ELSE reply'.exc)
                     /\ DOMAIN response'.json = {"error", "message"}
                     /\ response'.json.error = "ai_provider_error"]_vars
    /\ []((/\ handler # JNull /\ handler.cls = "OpenAIBackend"
           /\ pc = "done" /\ calls.generate = 1
           /\ last_exc = EmptyResponse
           /\ data.t = "dict") => Succeeded)

\* witness of C28: the first body was empty, the second was valid JSON, the
\* request succeeded after 2 attempts
C28_Witness ==
    /\ Succeeded
    /\ handler.cls = "OpenAIBackend"
    /\ attempt_number = 2
    /\ last_exc = EmptyResponse
    /\ reply.kind = "text"
    /\ waited = <<2>>

(***************************************************************************)
(* Properties of a failed initialisation (checked under Spec).             *)
(***************************************************************************)
\* the request is over and its call of _get_handler raised
InitFailed == pc = "done" /\ calls = [get_handler |-> 1, generate |-> 0]

\* C29: a configuration failure leaves the shared backend state unchanged
\* and is not retried within the request: when _get_handler fails (API_KEY
\* unset, invalid provider, constructor error) the global handler stays
\* None, generate is never called, the request returns after that single
\* initialisation attempt, and a later request attempts the initialisation
\* again (a new instance or a new failure, never a half-built handler).
C29_FailedInitLeavesHandlerNone ==
    /\ [](InitFailed =>
            /\ Failed
            /\ handler = JNull
            /\ attempt_number = 0 /\ waited = <<>> /\ reply = Unset)
    /\ [][(pc = "backend_call" /\ handler = JNull) =>
              /\ calls' = [calls EXCEPT !.get_handler = 1,
                                        !.generate = IF handler' = JNull
                                                     THEN 0 ELSE 1]
              /\ BrokenConfiguration(env) => handler' = JNull
              /\ handler' = JNull =>
                     (pc' = "done" /\ constructed' = constructed)
              /\ handler' # JNull =>
                     /\ pc' = "generate"
                     /\ constructed' = constructed + 1
                     /\ handler'.serial = constructed']_vars
    /\ [][(pc = "backend_call" /\ handler # JNull) =>
              (handler' = handler /\ constructed' = constructed)]_vars

\* witness of C29: the second request of a process with a complete
\* configuration called _get_handler, the constructor raised again, the
\* handler is still None and generate was not called
C29_Witness ==
    /\ InitFailed
    /\ requests = 2
    /\ ~BrokenConfiguration(env)
    /\ handler = JNull
    /\ constructed = 0
    /\ ErrorCode = "ai_provider_error"

(***************************************************************************)
(* Properties of analyze_screenshot_with_hierarchy (checked under          *)
(* SpecHierarchy).                                                         *)
(***************************************************************************)
\* the tool has returned
HierarchyReturned == pc = "hierarchy_returned"

HierarchyFields ==
    {"hierarchy_elements_count", "hierarchy_available",
     "ui_elements_from_hierarchy"}

\* the resource ids, in document order, of the nodes of a document that are
\* clickable or carry a text or a description
RECURSIVE RelevantIds(_)
RelevantIds(nodes) ==
    IF nodes = <<>> THEN <<>>
    ELSE LET n == Head(nodes)
         IN  (IF n.clickable = "true" \/ n.text # "" \/ n.content_desc # ""
              THEN <<n.resource_id>> ELSE <<>>)
             \o RelevantIds(n.children) \o RelevantIds(Tail(nodes))

====
